---- MODULE Spec2Model ----
(***************************************************************************)
(* A model of go-extras/errx: the error values built by errx.Wrap /        *)
(* errx.Classify (and their stacktrace and compat variants), the matching  *)
(* and typed-search protocol of the standard errors package as the errx    *)
(* types implement it, the breadth-first attribute extraction and the JSON *)
(* serializer.                                                             *)
(*                                                                         *)
(* Error values live in a heap: heap[i] is the object at address i, and an *)
(* error interface value is either NIL or the address of an object.  A Go  *)
(* string is a TLA+ string, a slice is a sequence.                         *)
(***************************************************************************)
EXTENDS Integers, Sequences, FiniteSets, TLC

VARIABLES
    heap,   \* the error objects allocated so far, by address
    ret,    \* the last call of a constructing function: its arguments and result
    ea,     \* the frame of the running ExtractAttrs call (its locals)
    ser     \* the frame of the running serializer call

vars == <<heap, ret, ea, ser>>

NIL == 0

\* ---------------------------------------------------------------- bounds

\* The number of Wrap / Classify calls made after the vocabulary is set up.
MaxCalls == 2

\* ------------------------------------------------------------ the objects

Node(kind, text, parents, cls, cause, members, attrs, frames) ==
    [kind |-> kind, text |-> text, parents |-> parents, cls |-> cls,
     cause |-> cause, members |-> members, attrs |-> attrs, frames |-> frames,
     backing |-> NIL]

\* errors.New(text)
errorString(text) == Node("errorString", text, <<>>, <<>>, NIL, <<>>, <<>>, <<>>)

\* the *fmt.wrapError built by fmt.Errorf("%s: %w", ...): the message is
\* rendered when the value is built
wrapError(msg, err) == Node("wrapError", msg, <<>>, <<>>, err, <<>>, <<>>, <<>>)

sentinel(text, parents) == Node("sentinel", text, parents, <<>>, NIL, <<>>, <<>>, <<>>)

\* displayable embeds a *sentinel that has no parents
displayable(message) == Node("displayable", message, <<>>, <<>>, NIL, <<>>, <<>>, <<>>)

attributed(attrs) == Node("attributed", "", <<>>, <<>>, NIL, <<>>, attrs, <<>>)

traced(frames) == Node("traced", "", <<>>, <<>>, NIL, <<>>, <<>>, frames)

carrier(classifications, cause) ==
    Node("carrier", "", <<>>, classifications, cause, <<>>, <<>>, <<>>)

\* the backing array of a []Classified: one slot per unit of capacity, nil in
\* the slots no slice over it has reached
backingArray(slots) == Node("array", "", <<>>, slots, NIL, <<>>, <<>>, <<>>)

\* a carrier whose classifications field is the slice s = array[0:len] handed
\* in by the caller: cls is what the slice shows, backing the array it shares
carrierOver(h, s, cause) ==
    [carrier(SubSeq(h[s.arr].cls, 1, s.len), cause) EXCEPT !.backing = s.arr]

\* a caller's multi-cause error: Error() is a fixed message, Unwrap() []error
\* returns errs (which may hold nil entries)
multiError(message, errs) == Node("multiError", message, <<>>, <<>>, NIL, errs, <<>>, <<>>)

\* compat's errorWrapper
errorWrapper(err) == Node("errorWrapper", "", <<>>, <<>>, err, <<>>, <<>>, <<>>)

\* a caller's own pointer-typed error: Error() is a fixed message, Unwrap()
\* returns the cause field, which the caller can assign
customError(text, cause) == Node("custom", text, <<>>, <<>>, cause, <<>>, <<>>, <<>>)

\* a caller's own error of a struct type with value receivers: the interface
\* holds a struct, not a pointer
valueError(text) == Node("valueError", text, <<>>, <<>>, NIL, <<>>, <<>>, <<>>)

Addrs(h) == 1..Len(h)

Range(f) == {f[i] : i \in DOMAIN f}

\* The types that have the IsClassified marker method.
ClassifiedKinds == {"sentinel", "displayable", "attributed", "traced", "errorWrapper"}

IsClassifiedType(h, n) == n # NIL /\ h[n].kind \in ClassifiedKinds

\* --------------------------------------------------------------- Error()

RECURSIVE JoinStrings(_, _)
JoinStrings(parts, sep) ==
    IF Len(parts) = 0 THEN ""
    ELSE IF Len(parts) = 1 THEN parts[1]
    ELSE parts[1] \o sep \o JoinStrings(Tail(parts), sep)

AttrString(a) == a.key \o "=" \o a.value

AttrListString(al) == JoinStrings([i \in 1..Len(al) |-> AttrString(al[i])], " ")

attributedError(n) ==
    IF Len(n.attrs) = 0 THEN "(empty attribute list)" ELSE AttrListString(n.attrs)

tracedError(n) ==
    IF Len(n.frames) = 0 THEN "(empty stack trace)"
    ELSE "stack trace: " \o ToString(Len(n.frames)) \o " frames"

RECURSIVE ErrorOf(_, _)

\* the texts a list of classifications renders (a nil entry renders nothing)
ClsTexts(h, cls) ==
    [i \in 1..Len(cls) |-> IF cls[i] = NIL THEN "" ELSE ErrorOf(h, cls[i])]

\* carrier.Error as it would be if the classification text were shown
carrierErrorLeaky(h, c) ==
    JoinStrings(<<ErrorOf(h, c.cause)>> \o ClsTexts(h, c.cls), " ")

\* carrier.Error: the cause's text, whatever the classifications are
carrierError(h, c) == ErrorOf(h, c.cause)

\* errorWrapper.Error (compat)
errorWrapperError(h, w) == ErrorOf(h, w.cause)

\* err.Error()
ErrorOf(h, n) ==
    LET o == h[n] IN
    CASE o.kind \in {"errorString", "wrapError", "sentinel", "displayable", "custom",
                     "multiError", "valueError"} -> o.text
      [] o.kind = "attributed" -> attributedError(o)
      [] o.kind = "traced" -> tracedError(o)
      [] o.kind = "carrier" -> carrierError(h, o)
      [] o.kind = "errorWrapper" -> errorWrapperError(h, o)

\* ---------------------------------------------------------------- Unwrap

\* The types with an Unwrap() error method.
SingleUnwrapKinds ==
    {"wrapError", "sentinel", "displayable", "carrier", "custom", "errorWrapper"}

\* sentinel.Unwrap: the first parent, if any
sentinelUnwrap(o) == IF Len(o.parents) = 0 THEN NIL ELSE o.parents[1]

\* x.Unwrap() for a type with the single-cause method
UnwrapMethod(h, n) ==
    LET o == h[n] IN
    IF o.kind \in {"sentinel", "displayable"} THEN sentinelUnwrap(o) ELSE o.cause

\* errors.Unwrap(err)
Unwrap(h, n) ==
    IF n # NIL /\ h[n].kind \in SingleUnwrapKinds THEN UnwrapMethod(h, n) ELSE NIL

\* the type has Unwrap() []error
IsMulti(h, n) == n # NIL /\ h[n].kind = "multiError"

\* ------------------------------------------------------------- errors.Is

RECURSIVE IsLoop(_, _, _)

\* sentinel.Is as it would be if only the first parent were consulted
sentinelIsFirstParentOnly(h, n, target) ==
    \/ target = n
    \/ Len(h[n].parents) > 0 /\ h[n].parents[1] # NIL
           /\ IsLoop(h, h[n].parents[1], target)

\* sentinel.Is: the target is this sentinel, or some parent matches it
sentinelIs(h, n, target) ==
    \/ target = n
    \/ \E i \in 1..Len(h[n].parents) :
          h[n].parents[i] # NIL /\ IsLoop(h, h[n].parents[i], target)

\* carrier.Is as it would be if the classifications were not consulted
carrierIsCauseOnly(h, n, target) == IsLoop(h, h[n].cause, target)

\* carrier.Is: the cause matches, or some classification does
carrierIs(h, n, target) ==
    \/ IsLoop(h, h[n].cause, target)
    \/ \E i \in 1..Len(h[n].cls) :
          h[n].cls[i] # NIL /\ IsLoop(h, h[n].cls[i], target)

\* x.Is(target), for the types that have the method.  displayable gets the
\* method of its embedded *sentinel, whose address no error value holds and
\* which has no parents.
IsMethod(h, n, target) ==
    CASE h[n].kind = "sentinel" -> sentinelIs(h, n, target)
      [] h[n].kind = "carrier" -> carrierIs(h, n, target)
      [] OTHER -> FALSE

\* the loop of errors.Is over a non-nil err and a non-nil target (every
\* error type of the model is a pointer type, hence comparable)
IsLoop(h, n, target) ==
    \/ n = target
    \/ IsMethod(h, n, target)
    \/ /\ h[n].kind \in SingleUnwrapKinds
       /\ UnwrapMethod(h, n) # NIL
       /\ IsLoop(h, UnwrapMethod(h, n), target)
    \/ /\ h[n].kind = "multiError"
       /\ \E i \in 1..Len(h[n].members) :
             h[n].members[i] # NIL /\ IsLoop(h, h[n].members[i], target)

\* errors.Is(err, target)
Is(h, err, target) ==
    IF err = NIL \/ target = NIL THEN err = target ELSE IsLoop(h, err, target)

\* ------------------------------------------------------------- errors.As

\* The result of a typed search whose walk comes back to an error it is
\* still examining: the loop (or the recursion through an As method) of
\* errors.As has no exit there and the call never returns.
DIVERGES == -1

RECURSIVE AsLoop(_, _, _, _)
RECURSIVE AsFirst(_, _, _, _)

\* the first hit of errors.As over a list of errors, in list order
AsFirst(h, errs, T, path) ==
    IF Len(errs) = 0 THEN NIL
    ELSE LET r == AsLoop(h, Head(errs), T, path)
         IN  IF r # NIL THEN r ELSE AsFirst(h, Tail(errs), T, path)

\* sentinel.As: the parents only, never the sentinel itself
sentinelAs(h, n, T, path) == AsFirst(h, h[n].parents, T, path)

\* carrier.As as it would be if the classifications were searched last to
\* first
carrierAsLastCls(h, n, T, path) ==
    AsFirst(h, <<h[n].cause>> \o [i \in 1..Len(h[n].cls) |-> h[n].cls[Len(h[n].cls) + 1 - i]],
            T, path)

\* carrier.As: the cause first, then the classifications in list order
carrierAs(h, n, T, path) == AsFirst(h, <<h[n].cause>> \o h[n].cls, T, path)

\* x.As(target), for the types that have the method (NIL: no match)
AsMethod(h, n, T, path) ==
    CASE h[n].kind \in {"sentinel", "displayable"} -> sentinelAs(h, n, T, path)
      [] h[n].kind = "carrier" -> carrierAs(h, n, T, path)
      [] OTHER -> NIL

\* The loop of errors.As for a target of type *T: the address of the first
\* error of dynamic type T, NIL when the search ends without one, DIVERGES
\* when it does not end.  path holds the errors under examination.
AsLoop(h, n, T, path) ==
    IF n = NIL THEN NIL
    ELSE IF n \in path THEN DIVERGES
    ELSE IF h[n].kind = T THEN n
    ELSE LET p == path \cup {n}
             m == AsMethod(h, n, T, p)
         IN  IF m # NIL THEN m
             ELSE IF h[n].kind \in SingleUnwrapKinds
                  THEN AsLoop(h, UnwrapMethod(h, n), T, p)
             ELSE IF h[n].kind = "multiError" THEN AsFirst(h, h[n].members, T, p)
             ELSE NIL

\* errors.As(err, &t) with t of type *T
As(h, err, T) == AsLoop(h, err, T, {})

\* ------------------------------------------------- displayable, attributes

\* IsDisplayable(err): DIVERGES when its errors.As never returns
IsDisplayable(h, err) ==
    IF err = NIL THEN FALSE
    ELSE LET d == As(h, err, "displayable")
         IN  IF d = DIVERGES THEN DIVERGES ELSE d > NIL

\* DisplayText as it would be if it rendered the outermost error
DisplayTextOuter(h, err) == IF err = NIL THEN "" ELSE ErrorOf(h, err)

\* DisplayText(err): DIVERGES when its errors.As never returns
DisplayText(h, err) ==
    IF err = NIL THEN ""
    ELSE LET d == As(h, err, "displayable")
         IN  IF d = DIVERGES THEN DIVERGES
             ELSE IF d > NIL THEN ErrorOf(h, d) ELSE ErrorOf(h, err)

\* DisplayTextDefault(err, def): DIVERGES when the errors.As of its
\* IsDisplayable call never returns
DisplayTextDefault(h, err, def) ==
    IF err = NIL THEN ""
    ELSE IF As(h, err, "displayable") = DIVERGES THEN DIVERGES
    ELSE IF IsDisplayable(h, err) THEN DisplayText(h, err)
    ELSE def

\* HasAttrs(err): DIVERGES when its errors.As never returns
HasAttrs(h, err) ==
    IF err = NIL THEN FALSE
    ELSE LET a == As(h, err, "attributed")
         IN  IF a = DIVERGES THEN DIVERGES ELSE a > NIL

\* stacktrace.Extract(err): the frames of the first traced error found,
\* DIVERGES when its errors.As never returns
Extract(h, err) ==
    IF err = NIL THEN <<>>
    ELSE LET t == As(h, err, "traced")
         IN  IF t = DIVERGES THEN DIVERGES
             ELSE IF t > NIL THEN h[t].frames ELSE <<>>

\* ------------------------------------------------------------------ Attrs
\* An argument of Attrs(args ...any) is a value with its dynamic type. str is
\* the value as an Attr that stores it prints it; attrs are the pairs an Attr, an
\* []Attr or an AttrList holds.

BADKEY == "!BADKEY"

StringArg(s) == [type |-> "string", str |-> s, attrs |-> <<>>]

IntArg(digits) == [type |-> "int", str |-> digits, attrs |-> <<>>]

AttrArg(a) == [type |-> "Attr", str |-> AttrString(a), attrs |-> <<a>>]

SliceArg(al) ==
    [type |-> "[]Attr",
     str |-> "[" \o AttrListString(al) \o "]",
     attrs |-> al]

AttrListArg(al) == [type |-> "AttrList", str |-> AttrListString(al), attrs |-> al]

\* the type switch of parseAttrs as it would be without the string case
parseArgKeyless(attrs, i) ==
    LET v == attrs[i]
    IN  CASE v.type = "Attr" -> [add |-> <<v.attrs[1]>>, next |-> i + 1]
          [] v.type \in {"[]Attr", "AttrList"} -> [add |-> v.attrs, next |-> i + 1]
          [] OTHER -> [add |-> << [key |-> BADKEY, value |-> v.str] >>, next |-> i + 1]

\* One iteration of the loop of parseAttrs at index i (1-based): what it
\* appends and the index of the next iteration.
parseArg(attrs, i) ==
    LET v == attrs[i]
    IN  CASE v.type = "Attr" -> [add |-> <<v.attrs[1]>>, next |-> i + 1]
          [] v.type \in {"[]Attr", "AttrList"} -> [add |-> v.attrs, next |-> i + 1]
          [] v.type = "string" ->
                IF i + 1 <= Len(attrs)
                THEN [add |-> << [key |-> v.str, value |-> attrs[i + 1].str] >>, next |-> i + 2]
                ELSE [add |-> << [key |-> BADKEY, value |-> v.str] >>, next |-> i + 1]
          [] OTHER -> [add |-> << [key |-> BADKEY, value |-> v.str] >>, next |-> i + 1]

RECURSIVE parseLoop(_, _, _)
parseLoop(attrs, i, result) ==
    IF i > Len(attrs) THEN result
    ELSE LET step == parseArg(attrs, i)
         IN  parseLoop(attrs, step.next, result \o step.add)

\* parseAttrs(attrs): nil (the empty list) for no arguments
parseAttrs(attrs) == IF Len(attrs) = 0 THEN <<>> ELSE parseLoop(attrs, 1, <<>>)

\* ----------------------------------------------------------- ExtractAttrs
\* ExtractAttrs is a loop over a queue. Its locals are the fields of a frame;
\* order is the history of the errors whose successors the loop has queued.

\* an AttrList result: nil, or a list
NilAttrs == [nil |-> TRUE, items |-> <<>>]

\* visitedErrorsTracker.contains as it would be if it never found an error
visitedContainsNever(visited, err) == FALSE

\* visitedErrorsTracker.contains(err): by pointer identity
visitedContains(visited, err) == err # NIL /\ err \in visited

\* visitedErrorsTracker.add(err)
visitedAdd(visited, err) == IF err = NIL THEN visited ELSE visited \cup {err}

\* attributedErrorsFound[aErr] as it would be if the map compared the lists
foundByContent(h, found, aErr) == \E a \in found : h[a].attrs = h[aErr].attrs

\* attributedErrorsFound[aErr]: the map is keyed by the instance
attributedErrorsFound(h, found, aErr) == aErr \in found

\* the locals at the top of the loop of ExtractAttrs(err), err not nil
eaEnter(err) ==
    [pc |-> "loop", root |-> err, queue |-> <<err>>, visited |-> {}, found |-> {},
     allAttrs |-> <<>>, order |-> <<>>, out |-> NilAttrs]

\* one iteration as it would be with a stack in place of the queue: what the
\* current error leads to is examined before the errors already waiting
eaIterDepthFirst(h, f) ==
    LET current == Head(f.queue)
        queue1 == Tail(f.queue)
    IN  IF visitedContains(f.visited, current)
        THEN [f EXCEPT !.queue = queue1]
        ELSE LET isAttr == current # NIL /\ h[current].kind = "attributed"
                 fresh == isAttr /\ ~attributedErrorsFound(h, f.found, current)
                 next2 == IF current # NIL /\ h[current].kind = "carrier"
                          THEN h[current].cls
                          ELSE <<>>
                 next3 == IF IsMulti(h, current) THEN next2 \o h[current].members
                          ELSE IF Unwrap(h, current) # NIL
                               THEN Append(next2, Unwrap(h, current))
                               ELSE next2
             IN  [f EXCEPT !.queue = next3 \o queue1,
                           !.visited = visitedAdd(f.visited, current),
                           !.found = IF fresh THEN f.found \cup {current} ELSE f.found,
                           !.allAttrs = IF fresh THEN f.allAttrs \o h[current].attrs
                                        ELSE f.allAttrs,
                           !.order = IF current = NIL THEN f.order
                                     ELSE Append(f.order, current)]

\* one iteration of the loop of ExtractAttrs
eaIter(h, f) ==
    LET current == Head(f.queue)
        queue1 == Tail(f.queue)
    IN  IF visitedContains(f.visited, current)
        THEN [f EXCEPT !.queue = queue1]
        ELSE LET isAttr == current # NIL /\ h[current].kind = "attributed"
                 fresh == isAttr /\ ~attributedErrorsFound(h, f.found, current)
                 queue2 == IF current # NIL /\ h[current].kind = "carrier"
                           THEN queue1 \o h[current].cls
                           ELSE queue1
                 queue3 == IF IsMulti(h, current) THEN queue2 \o h[current].members
                           ELSE IF Unwrap(h, current) # NIL
                                THEN Append(queue2, Unwrap(h, current))
                                ELSE queue2
             IN  [f EXCEPT !.queue = queue3,
                           !.visited = visitedAdd(f.visited, current),
                           !.found = IF fresh THEN f.found \cup {current} ELSE f.found,
                           !.allAttrs = IF fresh THEN f.allAttrs \o h[current].attrs
                                        ELSE f.allAttrs,
                           !.order = IF current = NIL THEN f.order
                                     ELSE Append(f.order, current)]

\* the return statement of ExtractAttrs
eaResult(f) ==
    IF Len(f.allAttrs) = 0 THEN NilAttrs ELSE [nil |-> FALSE, items |-> f.allAttrs]

RECURSIVE eaRun(_, _)
\* the loop of ExtractAttrs run to its end
eaRun(h, f) == IF Len(f.queue) = 0 THEN f ELSE eaRun(h, eaIter(h, f))

\* ExtractAttrs(err)
ExtractAttrs(h, err) ==
    IF err = NIL THEN NilAttrs ELSE eaResult(eaRun(h, eaEnter(err)))

\* ------------------------------------------------------ json serialization
\* toSerializedError and what it calls. A result carries st: "ok", or
\* "diverges" when an errors.As inside it never returns, or "panics" when it
\* calls a method of a nil interface. The SerializedError built is the value
\* Marshal and MarshalIndent hand to encoding/json and ToSerializedError
\* returns.

\* defaultConfig()
defaultConfig == [maxDepth |-> 32, maxStackFrames |-> 32, includeStandardErrors |-> TRUE]

WithMaxDepth(c, depth) == [c EXCEPT !.maxDepth = depth]

WithMaxStackFrames(c, frames) == [c EXCEPT !.maxStackFrames = frames]

WithIncludeStandardErrors(c, include) == [c EXCEPT !.includeStandardErrors = include]

\* a nil *SerializedError
NilNode == [nil |-> TRUE]

\* a nil []*SerializedError
NilCauses == [nil |-> TRUE, items |-> <<>>]

\* &SerializedError{Message: message}
SerializedError(message) ==
    [nil |-> FALSE, message |-> message, display_text |-> "", sentinels |-> <<>>,
     attributes |-> <<>>, stack_trace |-> <<>>, cause |-> NilNode, causes |-> NilCauses]

MaxDepthReached == "(max depth reached)"

CircularReference == "(circular reference)"

\* the depth test as it would be with > for >=
depthLimitOffByOne(cfg, depth) == depth > cfg.maxDepth

\* the depth test of toSerializedError
depthLimit(cfg, depth) == depth >= cfg.maxDepth

\* reflect.ValueOf(err).UnsafePointer() returns for a value of pointer kind
\* and panics for a struct
UnsafePointerDefined(h, err) == h[err].kind # "valueError"

\* visitedErrors.contains(err): by the pointer of the error value
visitedErrorsContains(visited, err) == err # NIL /\ err \in visited

\* visitedErrors.add(err)
visitedErrorsAdd(visited, err) == IF err = NIL THEN visited ELSE visited \cup {err}

\* isErrxError(err)
isErrxError(h, err) == IsClassifiedType(h, err)

\* isCarrier(err): a struct with a field named classifications
isCarrier(h, err) == err # NIL /\ h[err].kind = "carrier"

\* extractCarrierClassifications(err): nil for an error that is not a carrier
\* and for a carrier with no classifications. For the first element of a
\* non-empty list the loop calls itemVal.UnsafePointer() on a reflect.Value of
\* kind Interface, which panics, so no call returns a non-empty list.
extractCarrierClassifications(h, err) ==
    IF isCarrier(h, err) /\ Len(h[err].cls) > 0 THEN [st |-> "panics", list |-> <<>>]
    ELSE [st |-> "ok", list |-> <<>>]

\* isPureSentinel(cls): "yes", "no", or "diverges". IsDisplayable, HasAttrs
\* and stacktrace.Extract are each one errors.As, evaluated left to right.
isPureSentinel(h, cls) ==
    LET d == As(h, cls, "displayable")
    IN  IF d = DIVERGES THEN "diverges"
        ELSE IF d > NIL THEN "no"
        ELSE LET a == As(h, cls, "attributed")
             IN  IF a = DIVERGES THEN "diverges"
                 ELSE IF a > NIL THEN "no"
                 ELSE LET t == As(h, cls, "traced")
                      IN  IF t = DIVERGES THEN "diverges"
                          ELSE IF t > NIL /\ Len(h[t].frames) > 0 THEN "no"
                          ELSE "yes"

\* what the sentinel collection starts from
NoSentinels == [st |-> "ok", list |-> <<>>]

\* the body of the loops of addPureSentinels and addSelfAsPureSentinel: the
\* text of a pure sentinel is appended unless seen; cls.Error() of a nil
\* interface panics
addSentinelText(h, cls, acc) ==
    LET pure == isPureSentinel(h, cls)
    IN  IF pure = "diverges" THEN [acc EXCEPT !.st = "diverges"]
        ELSE IF pure = "no" THEN acc
        ELSE IF cls = NIL THEN [acc EXCEPT !.st = "panics"]
        ELSE IF ErrorOf(h, cls) \in Range(acc.list) THEN acc
        ELSE [acc EXCEPT !.list = Append(acc.list, ErrorOf(h, cls))]

RECURSIVE addPureSentinels(_, _, _)
\* addPureSentinels(classifications, &sentinels, seen)
addPureSentinels(h, classifications, acc) ==
    IF acc.st # "ok" \/ Len(classifications) = 0 THEN acc
    ELSE addPureSentinels(h, Tail(classifications),
                          addSentinelText(h, Head(classifications), acc))

\* the two calls extractCarrierClassifications(x) and addPureSentinels(...)
\* that follow one another in extractSentinelsFromError and in the loop of
\* extractFromCarrierCauses
addCarrierSentinels(h, x, acc) ==
    LET c == extractCarrierClassifications(h, x)
    IN  IF acc.st # "ok" THEN acc
        ELSE IF c.st # "ok" THEN [acc EXCEPT !.st = c.st]
        ELSE addPureSentinels(h, c.list, acc)

\* extractFromCarrierCauses(err, &sentinels, seen): two levels of carriers
extractFromCarrierCauses(h, err, acc) ==
    LET cause1 == Unwrap(h, err)
    IN  IF acc.st # "ok" \/ ~isCarrier(h, cause1) THEN acc
        ELSE LET acc1 == addCarrierSentinels(h, cause1, acc)
                 cause2 == Unwrap(h, cause1)
             IN  IF acc1.st # "ok" \/ ~isCarrier(h, cause2) THEN acc1
                 ELSE addCarrierSentinels(h, cause2, acc1)

\* addSelfAsPureSentinel(err, &sentinels, seen)
addSelfAsPureSentinel(h, err, acc) ==
    IF acc.st # "ok" \/ ~IsClassifiedType(h, err) THEN acc
    ELSE addSentinelText(h, err, acc)

\* extractSentinelsFromError(err)
extractSentinelsFromError(h, err) ==
    addSelfAsPureSentinel(h, err,
        extractFromCarrierCauses(h, err, addCarrierSentinels(h, err, NoSentinels)))

\* serializeAttributes as it would be if a node carried only the attributes
\* of its own error
serializeAttributesOwn(h, err) ==
    IF h[err].kind = "attributed" THEN h[err].attrs ELSE <<>>

\* serializeAttributes(err, result): the attributes it sets
serializeAttributes(h, err) == ExtractAttrs(h, err).items

\* serializeStackTrace(err, cfg, result): the frames it sets
serializeStackTrace(h, err, cfg) ==
    LET t == As(h, err, "traced")
        frames == IF t > NIL THEN h[t].frames ELSE <<>>
        limit == IF cfg.maxStackFrames > 0 /\ Len(frames) > cfg.maxStackFrames
                 THEN cfg.maxStackFrames
                 ELSE Len(frames)
    IN  IF t = DIVERGES THEN [st |-> "diverges", frames |-> <<>>]
        ELSE [st |-> "ok", frames |-> SubSeq(frames, 1, limit)]

RECURSIVE toSerializedError(_, _, _, _, _)
RECURSIVE serializeMembers(_, _, _, _, _, _)

\* the loop of serializeMultiError over the members
serializeMembers(h, unwrapped, cfg, depth, visited, acc) ==
    IF Len(unwrapped) = 0 THEN [st |-> "ok", items |-> acc, visited |-> visited]
    ELSE LET ue == Head(unwrapped)
         IN  IF ue = NIL \/ (~cfg.includeStandardErrors /\ ~isErrxError(h, ue))
             THEN serializeMembers(h, Tail(unwrapped), cfg, depth, visited, acc)
             ELSE LET r == toSerializedError(h, ue, cfg, visited, depth + 1)
                  IN  IF r.st # "ok" THEN [st |-> r.st, items |-> acc, visited |-> r.visited]
                      ELSE serializeMembers(h, Tail(unwrapped), cfg, depth, r.visited,
                                            IF r.node.nil THEN acc ELSE Append(acc, r.node))

\* serializeMultiError as it would be if it also set the single cause
serializeMultiErrorAndCause(h, err, cfg, visited, depth) ==
    LET r == serializeMembers(h, h[err].members, cfg, depth, visited, <<>>)
    IN  [st |-> r.st,
         cause |-> IF Len(r.items) = 0 THEN NilNode ELSE r.items[1],
         causes |-> [nil |-> FALSE, items |-> r.items], visited |-> r.visited]

\* serializeMultiError(u, cfg, visited, depth, result)
serializeMultiError(h, err, cfg, visited, depth) ==
    IF Len(h[err].members) = 0
    THEN [st |-> "ok", cause |-> NilNode, causes |-> NilCauses, visited |-> visited]
    ELSE LET r == serializeMembers(h, h[err].members, cfg, depth, visited, <<>>)
         IN  [st |-> r.st, cause |-> NilNode,
              causes |-> [nil |-> FALSE, items |-> r.items], visited |-> r.visited]

\* serializeSingleCause(err, cfg, visited, depth, result): a carrier under
\* the error is skipped for its cause
serializeSingleCause(h, err, cfg, visited, depth) ==
    LET cause == Unwrap(h, err)
        innerCause == Unwrap(h, cause)
        none == [st |-> "ok", cause |-> NilNode, causes |-> NilCauses, visited |-> visited]
        into(e) == LET r == toSerializedError(h, e, cfg, visited, depth + 1)
                   IN  [st |-> r.st, cause |-> r.node, causes |-> NilCauses,
                        visited |-> r.visited]
    IN  IF cause = NIL THEN none
        ELSE IF isCarrier(h, cause)
             THEN IF innerCause # NIL /\ (cfg.includeStandardErrors \/ isErrxError(h, innerCause))
                  THEN into(innerCause)
                  ELSE none
        ELSE IF cfg.includeStandardErrors \/ isErrxError(h, cause) THEN into(cause)
        ELSE none

\* serializeCauses(err, cfg, visited, depth, result)
serializeCauses(h, err, cfg, visited, depth) ==
    IF IsMulti(h, err) THEN serializeMultiError(h, err, cfg, visited, depth)
    ELSE serializeSingleCause(h, err, cfg, visited, depth)

\* toSerializedError(err, cfg, visited, depth)
toSerializedError(h, err, cfg, visited, depth) ==
    LET stop(st, vis) == [st |-> st, node |-> NilNode, visited |-> vis]
    IN
    IF err = NIL THEN stop("ok", visited)
    ELSE IF depthLimit(cfg, depth)
         THEN [st |-> "ok", node |-> SerializedError(MaxDepthReached), visited |-> visited]
    ELSE IF ~UnsafePointerDefined(h, err) THEN stop("panics", visited)
    ELSE IF visitedErrorsContains(visited, err)
         THEN [st |-> "ok", node |-> SerializedError(CircularReference), visited |-> visited]
    ELSE LET visited1 == visitedErrorsAdd(visited, err)
             d == As(h, err, "displayable")
         IN  IF d = DIVERGES THEN stop("diverges", visited1)
             ELSE LET sentinels == extractSentinelsFromError(h, err)
                  IN  IF sentinels.st # "ok" THEN stop(sentinels.st, visited1)
                      ELSE LET trace == serializeStackTrace(h, err, cfg)
                           IN  IF trace.st # "ok" THEN stop(trace.st, visited1)
                               ELSE LET c == serializeCauses(h, err, cfg, visited1, depth)
                                    IN  [st |-> c.st,
                                         node |->
                                            [nil |-> FALSE,
                                             message |-> ErrorOf(h, err),
                                             display_text |->
                                                IF d > NIL THEN DisplayText(h, err) ELSE "",
                                             sentinels |-> sentinels.list,
                                             attributes |-> serializeAttributes(h, err),
                                             stack_trace |-> trace.frames,
                                             cause |-> c.cause,
                                             causes |-> c.causes],
                                         visited |-> c.visited]

\* ToSerializedError as it would be if the depth limit came before the nil test
ToSerializedErrorDepthFirst(h, err, cfg) ==
    IF depthLimit(cfg, 0)
    THEN [st |-> "ok", node |-> SerializedError(MaxDepthReached), visited |-> {}]
    ELSE toSerializedError(h, err, cfg, {}, 0)

\* Marshal(err, opts...), MarshalIndent, ToSerializedError: nil for a nil
\* error; cfg is defaultConfig() after the options
ToSerializedError(h, err, cfg) ==
    IF err = NIL THEN [st |-> "ok", node |-> NilNode, visited |-> {}]
    ELSE toSerializedError(h, err, cfg, {}, 0)

\* ----------------------------------------------------------- constructors
\* Each returns the heap after the call and the error value returned.

Alloc(h, obj) == [heap |-> Append(h, obj), res |-> Len(h) + 1]

Returned(h, res) == [heap |-> h, res |-> res]

\* NewSentinel(text, parents...)
NewSentinel(h, text, parents) == Alloc(h, sentinel(text, parents))

\* NewDisplayable(message)
NewDisplayable(h, message) == Alloc(h, displayable(message))

\* Attrs(attrs...)
Attrs(h, attrs) == Alloc(h, attributed(parseAttrs(attrs)))

\* classify as it would be without the nil check
classifyNoNilCheck(h, cause, classifications) ==
    Alloc(h, carrier(classifications, cause))

\* classify(cause, classifications...)
classify(h, cause, classifications) ==
    IF cause = NIL THEN Returned(h, NIL)
    ELSE Alloc(h, carrier(classifications, cause))

\* Classify(cause, classifications...)
Classify(h, cause, classifications) == classify(h, cause, classifications)

\* fmt.Errorf("%s: %w", text, err) as it would be with the operands swapped
ErrorfSwapped(h, text, err) == Alloc(h, wrapError(ErrorOf(h, err) \o ": " \o text, err))

\* fmt.Errorf("%s: %w", text, err)
Errorf(h, text, err) == Alloc(h, wrapError(text \o ": " \o ErrorOf(h, err), err))

\* Wrap(text, cause, classifications...)
Wrap(h, text, cause, classifications) ==
    IF cause = NIL THEN Returned(h, NIL)
    ELSE IF Len(classifications) = 0 THEN Errorf(h, text, cause)
    ELSE LET c == classify(h, cause, classifications)
         IN  Errorf(c.heap, text, c.res)

\* stacktrace.captureStack: the frames are what the stack walker reports
captureStack(h, frames) == Alloc(h, traced(frames))

\* stacktrace.Wrap(text, cause, classifications...)
stacktraceWrap(h, text, cause, classifications, frames) ==
    IF cause = NIL THEN Returned(h, NIL)
    ELSE LET trace == captureStack(h, frames)
         IN  Wrap(trace.heap, text, cause, Append(classifications, trace.res))

\* stacktrace.Classify(cause, classifications...)
stacktraceClassify(h, cause, classifications, frames) ==
    IF cause = NIL THEN Returned(h, NIL)
    ELSE LET trace == captureStack(h, frames)
         IN  Classify(trace.heap, cause, Append(classifications, trace.res))

\* array[k] = v: the store is seen through every slice that reaches slot k of
\* the array, so through the classifications of every carrier that holds one
storeSlot(h, arr, k, v) ==
    [a \in 1..Len(h) |->
        IF a = arr THEN [h[a] EXCEPT !.cls[k] = v]
        ELSE IF h[a].backing = arr /\ k <= Len(h[a].cls) THEN [h[a] EXCEPT !.cls[k] = v]
        ELSE h[a]]

\* append(s, v): with spare capacity the value is stored in the next slot of
\* the same array, else the elements are copied into a new array
append(h, s, v) ==
    IF s.len < Len(h[s.arr].cls)
    THEN [heap |-> storeSlot(h, s.arr, s.len + 1, v),
          slice |-> [arr |-> s.arr, len |-> s.len + 1]]
    ELSE [heap |-> Append(h, backingArray(Append(SubSeq(h[s.arr].cls, 1, s.len), v))),
          slice |-> [arr |-> Len(h) + 1, len |-> s.len + 1]]

\* classify(cause, s...): the carrier keeps the slice it is handed
classifySlice(h, cause, s) ==
    IF cause = NIL THEN Returned(h, NIL)
    ELSE Alloc(h, carrierOver(h, s, cause))

\* Wrap(text, cause, s...)
WrapSlice(h, text, cause, s) ==
    IF cause = NIL THEN Returned(h, NIL)
    ELSE IF s.len = 0 THEN Errorf(h, text, cause)
    ELSE LET c == classifySlice(h, cause, s)
         IN  Errorf(c.heap, text, c.res)

\* stacktrace.Wrap(text, cause, s...)
stacktraceWrapSlice(h, text, cause, s, frames) ==
    IF cause = NIL THEN Returned(h, NIL)
    ELSE LET trace == captureStack(h, frames)
             classifications == append(trace.heap, s, trace.res)
         IN  WrapSlice(classifications.heap, text, cause, classifications.slice)

\* stacktrace.Classify(cause, s...)
stacktraceClassifySlice(h, cause, s, frames) ==
    IF cause = NIL THEN Returned(h, NIL)
    ELSE LET trace == captureStack(h, frames)
             classifications == append(trace.heap, s, trace.res)
         IN  classifySlice(classifications.heap, cause, classifications.slice)

\* the conversion as it would be if it wrapped every non-nil entry
RECURSIVE toClassifiedAllRewrap(_, _, _)
toClassifiedAllRewrap(h, errs, acc) ==
    IF Len(errs) = 0 THEN [heap |-> h, list |-> acc]
    ELSE LET e == Head(errs) IN
         IF e = NIL THEN toClassifiedAllRewrap(h, Tail(errs), acc)
         ELSE toClassifiedAllRewrap(Append(h, errorWrapper(e)), Tail(errs),
                                    Append(acc, Len(h) + 1))

\* compat.toClassified over a whole list: a nil entry is dropped, a
\* Classified stays as it is, any other error gets an errorWrapper.  The
\* result is the heap with the wrappers and the converted list.
RECURSIVE toClassifiedAll(_, _, _)
toClassifiedAll(h, errs, acc) ==
    IF Len(errs) = 0 THEN [heap |-> h, list |-> acc]
    ELSE LET e == Head(errs) IN
         IF e = NIL THEN toClassifiedAll(h, Tail(errs), acc)
         ELSE IF IsClassifiedType(h, e) THEN toClassifiedAll(h, Tail(errs), Append(acc, e))
         ELSE toClassifiedAll(Append(h, errorWrapper(e)), Tail(errs),
                              Append(acc, Len(h) + 1))

\* compat.Wrap(text, cause, classifications...)
compatWrap(h, text, cause, classifications) ==
    IF cause = NIL THEN Returned(h, NIL)
    ELSE LET c == toClassifiedAll(h, classifications, <<>>)
         IN  Wrap(c.heap, text, cause, c.list)

\* compat.Classify(cause, classifications...)
compatClassify(h, cause, classifications) ==
    IF cause = NIL THEN Returned(h, NIL)
    ELSE LET c == toClassifiedAll(h, classifications, <<>>)
         IN  Classify(c.heap, cause, c.list)

\* ------------------------------------------------- the program's vocabulary
\* The errors a program holds before it starts wrapping: a base error, a
\* sentinel hierarchy, a displayable, an attributed marker and a standard
\* error used as a classification through compat.

BaseErr == 1
ErrDB == 2
ErrTimeout == 3
ErrOther == 4
ErrDisplay == 5
ErrAttrs == 6
ErrStd == 7

Vocabulary ==
    << errorString("base"),
       sentinel("db", <<>>),
       sentinel("timeout", <<ErrDB>>),
       sentinel("other", <<>>),
       displayable("msg"),
       attributed(<<[key |-> "k1", value |-> "v1"]>>),
       errorString("std") >>

WrapTexts == {"l1", "l2"}

\* the context text of the stacktrace and compat calls
OtherTexts == {"ctx"}

\* the classification lists callers pass to errx.Wrap / errx.Classify
ClsChoices ==
    { <<>>, <<ErrTimeout>>, <<ErrOther, ErrDisplay>>, <<ErrAttrs>> }

\* the classification lists callers pass to the stacktrace functions
TraceClsChoices == { <<>>, <<ErrTimeout>> }

\* the classification lists callers pass to the compat functions
CompatClsChoices == { <<>>, <<NIL, ErrTimeout>>, <<ErrStd, NIL, ErrDisplay>> }

\* what the stack walker reports at the call sites of the model
Stacks == { <<"main.run", "main.main">> }

\* the errors a caller wraps: nothing, the base error, the displayable, or
\* the error the previous call returned
CauseChoices == {NIL, BaseErr, ErrDisplay, ret.res}

NoCall == [op |-> "none", text |-> "", cause |-> NIL, cls |-> <<>>, res |-> NIL, calls |-> 0]

Idle == [pc |-> "idle"]

Init ==
    /\ heap = Vocabulary
    /\ ret = NoCall
    /\ ea = Idle
    /\ ser = Idle

\* the record of a call and its outcome
Call(op, text, cause, cls, r) ==
    /\ ret.calls < MaxCalls
    /\ heap' = r.heap
    /\ ret' = [op |-> op, text |-> text, cause |-> cause, cls |-> cls,
               res |-> r.res, calls |-> ret.calls + 1]
    /\ UNCHANGED <<ea, ser>>

DoWrap ==
    \E text \in WrapTexts, cause \in CauseChoices, cls \in ClsChoices :
        Call("Wrap", text, cause, cls, Wrap(heap, text, cause, cls))

DoClassify ==
    \E cause \in CauseChoices, cls \in ClsChoices :
        Call("Classify", "", cause, cls, Classify(heap, cause, cls))

DoStacktraceWrap ==
    \E text \in OtherTexts, cause \in CauseChoices, cls \in TraceClsChoices, fr \in Stacks :
        Call("stacktrace.Wrap", text, cause, cls, stacktraceWrap(heap, text, cause, cls, fr))

DoStacktraceClassify ==
    \E cause \in CauseChoices, cls \in TraceClsChoices, fr \in Stacks :
        Call("stacktrace.Classify", "", cause, cls, stacktraceClassify(heap, cause, cls, fr))

DoCompatWrap ==
    \E text \in OtherTexts, cause \in CauseChoices, cls \in CompatClsChoices :
        Call("compat.Wrap", text, cause, cls, compatWrap(heap, text, cause, cls))

DoCompatClassify ==
    \E cause \in CauseChoices, cls \in CompatClsChoices :
        Call("compat.Classify", "", cause, cls, compatClassify(heap, cause, cls))

Next ==
    \/ DoWrap
    \/ DoClassify
    \/ DoStacktraceWrap
    \/ DoStacktraceClassify
    \/ DoCompatWrap
    \/ DoCompatClassify

Spec == Init /\ [][Next]_vars

\* ------------------------------------------------------ sentinel hierarchies
\* A program that declares sentinels, any earlier ones as parents, and then
\* classifies a plain error with one of them.

MaxSentinels == 4

SentinelTexts == {"a", "b"}

Sentinels(h) == {n \in Addrs(h) : h[n].kind = "sentinel"}

\* the parent lists NewSentinel may be given: none, one or two of the
\* sentinels declared so far
ParentChoices(h) ==
    {<<>>} \cup {<<p>> : p \in Sentinels(h)}
           \cup {<<p, q>> : p \in Sentinels(h), q \in Sentinels(h)}

InitHier ==
    /\ heap = <<errorString("test")>>
    /\ ret = NoCall
    /\ ea = Idle
    /\ ser = Idle

DeclareSentinel ==
    /\ ret.op = "none"
    /\ Cardinality(Sentinels(heap)) < MaxSentinels
    /\ \E text \in SentinelTexts, parents \in ParentChoices(heap) :
          heap' = NewSentinel(heap, text, parents).heap
    /\ UNCHANGED <<ret, ea, ser>>

ClassifyBySentinel ==
    /\ ret.op = "none"
    /\ \E s \in Sentinels(heap) :
          Call("Classify", "", BaseErr, <<s>>, Classify(heap, BaseErr, <<s>>))

NextHier == DeclareSentinel \/ ClassifyBySentinel

SpecHier == InitHier /\ [][NextHier]_vars

\* --------------------------------------------------- attribute extraction
\* A program that builds an error graph out of attribute lists, wrappers,
\* multi-cause errors and an error whose cause it assigns afterwards (which
\* is how a graph gets a cycle), and then calls ExtractAttrs on it.

MaxAttrCalls == 2

AttrA == 2
AttrB == 3
AttrC == 4
Cyclic == 5

\* AttrA and AttrB are two instances holding the same pairs
AttrVocabulary ==
    << errorString("base"),
       attributed(<< [key |-> "k1", value |-> "v1"] >>),
       attributed(<< [key |-> "k1", value |-> "v1"] >>),
       attributed(<< [key |-> "k2", value |-> "v2"], [key |-> "k3", value |-> "v3"] >>),
       customError("unhashable circular error", NIL) >>

\* the error the program holds: the last one built, the base error at first
Cur == IF ret.res = NIL THEN BaseErr ELSE ret.res

AttrClsChoices == { <<AttrA>>, <<AttrC, AttrA>>, <<AttrA, AttrB>> }

AttrMembers ==
    { <<Cur, AttrC>>, <<AttrA, AttrA>>, <<AttrA, AttrB, AttrC>>, <<Cyclic, Cur>>, <<NIL, Cur>> }

\* &multiError{errs: errs}
NewMultiError(h, errs) == Alloc(h, multiError("multiple errors occurred", errs))

\* e.cause = target
SetCause(h, e, target) == [h EXCEPT ![e].cause = target]

InitAttrs ==
    /\ heap = AttrVocabulary
    /\ ret = NoCall
    /\ ea = Idle
    /\ ser = Idle

Built(bound, op, text, cause, cls, r) ==
    /\ ret.calls < bound
    /\ heap' = r.heap
    /\ ret' = [op |-> op, text |-> text, cause |-> cause, cls |-> cls,
               res |-> r.res, calls |-> ret.calls + 1]

AClassify ==
    /\ ea.pc = "idle"
    /\ \E cause \in {Cur, Cyclic}, cls \in AttrClsChoices :
          Built(MaxAttrCalls, "Classify", "", cause, cls, Classify(heap, cause, cls))
    /\ UNCHANGED <<ea, ser>>

AWrap ==
    /\ ea.pc = "idle"
    /\ \E cause \in {Cur, AttrA, Cyclic}, cls \in {<<>>, <<AttrB>>} :
          Built(MaxAttrCalls, "Wrap", "context", cause, cls, Wrap(heap, "context", cause, cls))
    /\ UNCHANGED <<ea, ser>>

AMulti ==
    /\ ea.pc = "idle"
    /\ \E errs \in AttrMembers :
          Built(MaxAttrCalls, "multiError", "", NIL, errs, NewMultiError(heap, errs))
    /\ UNCHANGED <<ea, ser>>

ALink ==
    /\ ea.pc = "idle"
    /\ heap[Cyclic].cause = NIL
    /\ \E target \in {Cyclic, Cur} : heap' = SetCause(heap, Cyclic, target)
    /\ UNCHANGED <<ret, ea, ser>>

\* the call ExtractAttrs(err): a nil error returns at once
EAStart ==
    /\ ea.pc = "idle"
    /\ \E err \in {NIL, Cur, Cyclic} :
          ea' = IF err = NIL
                THEN [eaEnter(NIL) EXCEPT !.pc = "done", !.queue = <<>>]
                ELSE eaEnter(err)
    /\ UNCHANGED <<heap, ret, ser>>

EAStep ==
    /\ ea.pc = "loop"
    /\ Len(ea.queue) > 0
    /\ ea' = eaIter(heap, ea)
    /\ UNCHANGED <<heap, ret, ser>>

EAReturn ==
    /\ ea.pc = "loop"
    /\ Len(ea.queue) = 0
    /\ ea' = [ea EXCEPT !.pc = "done", !.out = eaResult(ea)]
    /\ UNCHANGED <<heap, ret, ser>>

NextAttrs ==
    \/ AClassify
    \/ AWrap
    \/ AMulti
    \/ ALink
    \/ EAStart
    \/ EAStep
    \/ EAReturn

SpecAttrs == InitAttrs /\ [][NextAttrs]_vars

\* a call that has started keeps running
FairSpecAttrs == SpecAttrs /\ WF_vars(EAStep) /\ WF_vars(EAReturn)

\* ------------------------------------------------------------ serializing
\* A program that holds a chain of plain wrappers, builds further errors
\* (with classifications, multi-cause errors, a cause assigned afterwards)
\* and serializes one of them under some options.

MaxChain == 5

MaxJSONCalls == 2

ErrNotFound == 3
ErrUser == 4
ErrTrace == 6

JSONBase ==
    << errorString("level"),
       attributed(<< [key |-> "k1", value |-> "v1"] >>),
       sentinel("not found", <<>>),
       displayable("user message"),
       customError("unhashable circular error", NIL),
       traced(<< "main.run", "main.main" >>) >>

RECURSIVE Chain(_, _, _)
\* n plain Wrap calls, each around the error before
Chain(h, top, n) ==
    IF n = 0 THEN h
    ELSE LET r == Wrap(h, "level", top, <<>>) IN Chain(r.heap, r.res, n - 1)

\* the base error wrapped MaxChain - 1 times: a chain of MaxChain errors
JSONVocabulary == Chain(JSONBase, BaseErr, MaxChain - 1)

ChainErrors == {BaseErr} \cup (Len(JSONBase) + 1 .. Len(JSONBase) + MaxChain - 1)

DepthChoices == {0, 1, 3, 5}

JSONConfigs ==
    {defaultConfig}
    \cup {WithMaxDepth(defaultConfig, k) : k \in DepthChoices}
    \cup {WithIncludeStandardErrors(defaultConfig, FALSE),
          WithIncludeStandardErrors(WithMaxDepth(defaultConfig, 2), FALSE),
          WithMaxStackFrames(defaultConfig, 1),
          WithMaxStackFrames(defaultConfig, 0)}

JSONClsChoices == { <<ErrUser, ErrTrace>>, <<AttrA, ErrNotFound>>, <<NIL>> }

JSONMembers == { <<Cur, ErrNotFound>>, <<ErrUser, ErrTrace, Cyclic>>, <<NIL, Cyclic, Cur>> }

InitJSON ==
    /\ heap = JSONVocabulary
    /\ ret = NoCall
    /\ ea = Idle
    /\ ser = Idle

JWrap ==
    /\ ser.pc = "idle"
    /\ \E cause \in {Cur, Cyclic} :
          Built(MaxJSONCalls, "Wrap", "context", cause, <<ErrNotFound>>,
                Wrap(heap, "context", cause, <<ErrNotFound>>))
    /\ UNCHANGED <<ea, ser>>

JClassify ==
    /\ ser.pc = "idle"
    /\ \E cls \in JSONClsChoices :
          Built(MaxJSONCalls, "Classify", "", Cur, cls, Classify(heap, Cur, cls))
    /\ UNCHANGED <<ea, ser>>

JMulti ==
    /\ ser.pc = "idle"
    /\ \E errs \in JSONMembers :
          Built(MaxJSONCalls, "multiError", "", NIL, errs, NewMultiError(heap, errs))
    /\ UNCHANGED <<ea, ser>>

JLink ==
    /\ ser.pc = "idle"
    /\ heap[Cyclic].cause = NIL
    /\ \E target \in {Cyclic, Cur} : heap' = SetCause(heap, Cyclic, target)
    /\ UNCHANGED <<ret, ea, ser>>

\* the call: Marshal(err, opts...)
MarshalCall ==
    /\ ser.pc = "idle"
    /\ \E err \in {NIL, Cur, Cyclic} \cup ChainErrors, cfg \in JSONConfigs :
          ser' = [pc |-> "running", root |-> err, cfg |-> cfg, out |-> NilNode]
    /\ UNCHANGED <<heap, ret, ea>>

\* the call returns the serialized error, if the computation comes to an end
MarshalReturn ==
    /\ ser.pc = "running"
    /\ LET r == ToSerializedError(heap, ser.root, ser.cfg)
       IN  /\ r.st = "ok"
           /\ ser' = [ser EXCEPT !.pc = "done", !.out = r.node]
    /\ UNCHANGED <<heap, ret, ea>>

\* the call panics
MarshalPanic ==
    /\ ser.pc = "running"
    /\ ToSerializedError(heap, ser.root, ser.cfg).st = "panics"
    /\ ser' = [ser EXCEPT !.pc = "panicked"]
    /\ UNCHANGED <<heap, ret, ea>>

NextJSON ==
    \/ JWrap
    \/ JClassify
    \/ JMulti
    \/ JLink
    \/ MarshalCall
    \/ MarshalReturn
    \/ MarshalPanic

SpecJSON == InitJSON /\ [][NextJSON]_vars

\* ------------------------------------------------------ layered errors
\* A program that puts layers of Wrap and Classify around an error, with
\* sentinels of a hierarchy and the three kinds of markers, and serializes
\* the result.

MaxLayerCalls == 3

LTrace == 8
LValue == 9
LTagged == 10

\* the vocabulary with a trace, an error of a struct type and a sentinel
\* whose parent is the attribute list
LayerVocabulary ==
    Vocabulary \o << traced(<< "main.run", "main.main" >>),
                     valueError("value error"),
                     sentinel("tagged", <<ErrAttrs>>) >>

LayerWrapCls == { <<>>, <<ErrOther>> }

LayerCls ==
    { <<ErrTimeout>>, <<ErrDB, ErrAttrs>>, <<ErrDisplay, LTrace, ErrTimeout>>,
      <<LTagged, ErrDB>> }

LayerConfigs ==
    { defaultConfig, WithIncludeStandardErrors(defaultConfig, FALSE),
      WithMaxDepth(defaultConfig, 2) }

InitLayers ==
    /\ heap = LayerVocabulary
    /\ ret = NoCall
    /\ ea = Idle
    /\ ser = Idle

LWrap ==
    /\ ser.pc = "idle"
    /\ \E cause \in {Cur, ErrDisplay, LValue, LTagged}, cls \in LayerWrapCls :
          Built(MaxLayerCalls, "Wrap", "ctx", cause, cls, Wrap(heap, "ctx", cause, cls))
    /\ UNCHANGED <<ea, ser>>

LClassify ==
    /\ ser.pc = "idle"
    /\ \E cls \in LayerCls :
          Built(MaxLayerCalls, "Classify", "", Cur, cls, Classify(heap, Cur, cls))
    /\ UNCHANGED <<ea, ser>>

\* Marshal(err, opts...) for the error the program holds
LMarshalCall ==
    /\ ser.pc = "idle"
    /\ \E cfg \in LayerConfigs :
          ser' = [pc |-> "running", root |-> Cur, cfg |-> cfg, out |-> NilNode]
    /\ UNCHANGED <<heap, ret, ea>>

NextLayers == LWrap \/ LClassify \/ LMarshalCall \/ MarshalReturn \/ MarshalPanic

SpecLayers == InitLayers /\ [][NextLayers]_vars

\* ------------------------------------------------------- concurrent callers
\* Several callers traverse one finished graph at once: NProcs calls of
\* ExtractAttrs advance one loop iteration at a time in any interleaving,
\* beside a serialization and calls of DisplayText and errors.Is. In this
\* program ea holds one frame per caller.

NProcs == 2

\* the wrapped error of both graphs: Wrap("context", base, attrs, displayable, trace)
ConcWrapped == Wrap(JSONBase, "context", BaseErr, <<AttrA, ErrUser, ErrTrace>>)

\* a multi-cause error over it and the assignable error
ConcMulti == NewMultiError(ConcWrapped.heap, <<ConcWrapped.res, Cyclic>>)

\* a multi-cause error over the attribute list, the displayable error, the
\* trace and the assignable error: no Carrier is reachable from it
ConcPlain == NewMultiError(ConcWrapped.heap, <<AttrA, ErrUser, ErrTrace, Cyclic>>)

\* the graphs: one with the cycle closed through the multi-cause error, one
\* classified once more, one with the cycle closed and no Carrier
ConcGraphs ==
    { SetCause(ConcMulti.heap, Cyclic, ConcMulti.res),
      Classify(ConcMulti.heap, ConcMulti.res, <<AttrA, ErrNotFound>>).heap,
      SetCause(ConcPlain.heap, Cyclic, ConcPlain.res) }

\* the error every caller holds: the outermost one
ConcRoots(h) == {Len(h)}

\* the locals of caller i as they would be if the callers shared one visited set
callLocalsSharedVisited(frames, i) ==
    [frames[i] EXCEPT !.visited = UNION {frames[j].visited : j \in DOMAIN frames}]

\* the locals of caller i: each call of ExtractAttrs allocates its own
callLocals(frames, i) == frames[i]

IdleFrame == [eaEnter(NIL) EXCEPT !.pc = "idle", !.queue = <<>>]

InitConc ==
    /\ heap \in ConcGraphs
    /\ ret = NoCall
    /\ ea = [i \in 1..NProcs |-> IdleFrame]
    /\ ser = Idle

\* caller i calls ExtractAttrs(err), for the first time or again
CStart(i) ==
    /\ ea[i].pc \in {"idle", "done"}
    /\ \E err \in ConcRoots(heap) : ea' = [ea EXCEPT ![i] = eaEnter(err)]
    /\ UNCHANGED <<heap, ret, ser>>

CStep(i) ==
    /\ ea[i].pc = "loop"
    /\ Len(ea[i].queue) > 0
    /\ ea' = [ea EXCEPT ![i] = eaIter(heap, callLocals(ea, i))]
    /\ UNCHANGED <<heap, ret, ser>>

CReturn(i) ==
    /\ ea[i].pc = "loop"
    /\ Len(ea[i].queue) = 0
    /\ ea' = [ea EXCEPT ![i] = [ea[i] EXCEPT !.pc = "done", !.out = eaResult(ea[i])]]
    /\ UNCHANGED <<heap, ret, ser>>

CMarshalCall ==
    /\ ser.pc \in {"idle", "done", "panicked"}
    /\ ser' = [pc |-> "running", root |-> Len(heap), cfg |-> defaultConfig, out |-> NilNode]
    /\ UNCHANGED <<heap, ret, ea>>

CMarshalReturn ==
    /\ ser.pc = "running"
    /\ LET r == ToSerializedError(heap, ser.root, ser.cfg)
       IN  /\ r.st = "ok"
           /\ ser' = [ser EXCEPT !.pc = "done", !.out = r.node]
    /\ UNCHANGED <<heap, ret, ea>>

\* the serialization panics
CMarshalPanic ==
    /\ ser.pc = "running"
    /\ ToSerializedError(heap, ser.root, ser.cfg).st = "panics"
    /\ ser' = [ser EXCEPT !.pc = "panicked"]
    /\ UNCHANGED <<heap, ret, ea>>

\* a caller reads DisplayText(err); the call returns when its errors.As does
CDisplayText ==
    /\ As(heap, Len(heap), "displayable") # DIVERGES
    /\ ret' = [NoCall EXCEPT !.op = "DisplayText", !.cause = Len(heap),
                              !.text = DisplayText(heap, Len(heap))]
    /\ UNCHANGED <<heap, ea, ser>>

\* a caller tests errors.Is(err, target) on the wrapped error
CIs ==
    /\ ret' = [NoCall EXCEPT !.op = "Is", !.cause = ConcWrapped.res, !.res = ErrUser,
                              !.text = IF Is(heap, ConcWrapped.res, ErrUser)
                                       THEN "true" ELSE "false"]
    /\ UNCHANGED <<heap, ea, ser>>

NextConc ==
    \/ \E i \in 1..NProcs : CStart(i)
    \/ \E i \in 1..NProcs : CStep(i)
    \/ \E i \in 1..NProcs : CReturn(i)
    \/ CMarshalCall
    \/ CMarshalReturn
    \/ CMarshalPanic
    \/ CDisplayText
    \/ CIs

SpecConc == InitConc /\ [][NextConc]_vars

\* ------------------------------------------------------- building Attrs
\* A program that calls Attrs with some argument list and reads the pairs back.

MaxArgs == 3

ArgValues ==
    { StringArg("key1"), StringArg("value1"), IntArg("123"),
      AttrArg([key |-> "k2", value |-> "v2"]),
      SliceArg(<< [key |-> "k3", value |-> "v3"], [key |-> "k4", value |-> "v4"] >>),
      AttrListArg(<< [key |-> "k5", value |-> "v5"] >>) }

ArgLists == UNION { [1..n -> ArgValues] : n \in 0..MaxArgs }

InitParse ==
    /\ heap = << errorString("base error") >>
    /\ ret \in { [op |-> "none", args |-> args, res |-> NIL] : args \in ArgLists }
    /\ ea = Idle
    /\ ser = Idle

\* Attrs(args...) / WithAttrs(args...)
PAttrs ==
    /\ ret.op = "none"
    /\ LET r == Attrs(heap, ret.args)
       IN  /\ heap' = r.heap
           /\ ret' = [ret EXCEPT !.op = "Attrs", !.res = r.res]
    /\ UNCHANGED <<ea, ser>>

\* ExtractAttrs(result)
PExtract ==
    /\ ret.op = "Attrs"
    /\ ea.pc = "idle"
    /\ ea' = [pc |-> "done", out |-> ExtractAttrs(heap, ret.res)]
    /\ UNCHANGED <<heap, ret, ser>>

\* HasAttrs(result), a read
PHasAttrs ==
    /\ ret.op = "Attrs"
    /\ ea.pc = "done"
    /\ ser = Idle
    /\ ser' = [pc |-> "done", has |-> HasAttrs(heap, ret.res)]
    /\ UNCHANGED <<heap, ret, ea>>

NextParse == PAttrs \/ PExtract \/ PHasAttrs

SpecParse == InitParse /\ [][NextParse]_vars

\* ------------------------------------------------------ tagged sentinels
\* A program that declares sentinels whose parents are attribute lists or
\* earlier sentinels, classifies the base error by them, and asks for the
\* attributes.

MaxTagCalls == 3

\* the sentinel the last call declared, if it declared one
LastSentinel == IF ret.op = "NewSentinel" THEN {ret.res} ELSE {}

TagParents ==
    LET P == {AttrA, AttrC} \cup LastSentinel
    IN  UNION { [1..n -> P] : n \in 0..2 }

InitTags ==
    /\ heap = AttrVocabulary
    /\ ret = NoCall
    /\ ea = Idle
    /\ ser = Idle

\* NewSentinel("tagged", parents...)
TDeclare ==
    /\ \E parents \in TagParents :
          Built(MaxTagCalls, "NewSentinel", "tagged", NIL, parents,
                NewSentinel(heap, "tagged", parents))
    /\ UNCHANGED <<ea, ser>>

\* Classify(base, sentinel)
TClassify ==
    /\ ret.op = "NewSentinel"
    /\ Built(MaxTagCalls, "Classify", "", BaseErr, <<ret.res>>,
             Classify(heap, BaseErr, <<ret.res>>))
    /\ UNCHANGED <<ea, ser>>

\* HasAttrs(err) and ExtractAttrs(err) for the error the program holds
TRead ==
    /\ ret.res # NIL
    /\ IF ea.pc = "idle" THEN TRUE ELSE ea.root # ret.res
    /\ ea' = [pc |-> "done", root |-> ret.res,
              has |-> HasAttrs(heap, ret.res),
              found |-> eaRun(heap, eaEnter(ret.res)).found,
              out |-> ExtractAttrs(heap, ret.res)]
    /\ UNCHANGED <<heap, ret, ser>>

NextTags == TDeclare \/ TClassify \/ TRead

SpecTags == InitTags /\ [][NextTags]_vars

\* ---------------------------------------------------------- typed search
\* Programs that attach displayable messages and stack traces at several
\* levels and then ask for "the" message or "the" trace of the result.

MaxSearchCalls == 3

DFirst == 2
DSecond == 3
DThird == 4

SearchVocabulary ==
    << errorString("base error"), displayable("first"), displayable("second"),
       displayable("third") >>

\* the frames the stack walker reports at the two call sites
InnerSite == << "main.inner", "main.main" >>
OuterSite == << "main.outer", "main.main" >>

InitSearch ==
    /\ heap = SearchVocabulary
    /\ ret = NoCall
    /\ ea = Idle
    /\ ser = Idle

SWrap ==
    /\ \E cause \in {Cur, DFirst}, cls \in { <<>>, <<DSecond>> } :
          Built(MaxSearchCalls, "Wrap", "outer", cause, cls, Wrap(heap, "outer", cause, cls))
    /\ UNCHANGED <<ea, ser>>

SClassify ==
    /\ \E cause \in {Cur, DFirst}, cls \in { <<DSecond>>, <<DThird, DSecond>> } :
          Built(MaxSearchCalls, "Classify", "", cause, cls, Classify(heap, cause, cls))
    /\ UNCHANGED <<ea, ser>>

STraceWrap ==
    /\ \E frames \in {InnerSite, OuterSite} :
          Built(MaxSearchCalls, "stacktrace.Wrap", "outer", Cur, <<>>,
                stacktraceWrap(heap, "outer", Cur, <<>>, frames))
    /\ UNCHANGED <<ea, ser>>

STraceClassify ==
    /\ \E frames \in {InnerSite, OuterSite} :
          Built(MaxSearchCalls, "stacktrace.Classify", "", Cur, <<>>,
                stacktraceClassify(heap, Cur, <<>>, frames))
    /\ UNCHANGED <<ea, ser>>

NextSearch == SWrap \/ SClassify \/ STraceWrap \/ STraceClassify

SpecSearch == InitSearch /\ [][NextSearch]_vars

\* ------------------------------------------- calls with a caller's slice
\* The caller holds cls := array[0:1] with the sentinel db in it, over an
\* array of capacity 1 or 2 (make([]errx.Classified, 0, 2) followed by one
\* append), and passes cls... to the functions, from two call sites.

MaxSliceCalls == 3

SliceArray == 4

\* the base error and the sentinels db and timeout
SliceVocabulary == SubSeq(Vocabulary, 1, 3)

\* the caller's slice header
CallerSlice == [arr |-> SliceArray, len |-> 1]

InitSlices ==
    /\ heap \in { Append(SliceVocabulary, backingArray(slots)) :
                    slots \in { <<ErrDB>>, <<ErrDB, NIL>> } }
    /\ ret = NoCall
    /\ ea = Idle
    /\ ser = Idle

\* errx.Classify(cause, cls...)
LClassifySlice ==
    /\ \E cause \in {BaseErr, Cur} :
          Built(MaxSliceCalls, "Classify", "", cause, <<ErrDB>>,
                classifySlice(heap, cause, CallerSlice))
    /\ UNCHANGED <<ea, ser>>

\* errx.Wrap(text, cause, cls...)
LWrapSlice ==
    /\ \E cause \in {BaseErr, Cur} :
          Built(MaxSliceCalls, "Wrap", "ctx", cause, <<ErrDB>>,
                WrapSlice(heap, "ctx", cause, CallerSlice))
    /\ UNCHANGED <<ea, ser>>

\* stacktrace.Wrap(text, cause, cls...)
LTraceWrapSlice ==
    /\ \E cause \in {BaseErr, Cur}, frames \in {InnerSite, OuterSite} :
          Built(MaxSliceCalls, "stacktrace.Wrap", "ctx", cause, <<ErrDB>>,
                stacktraceWrapSlice(heap, "ctx", cause, CallerSlice, frames))
    /\ UNCHANGED <<ea, ser>>

\* stacktrace.Classify(cause, cls...)
LTraceClassifySlice ==
    /\ \E cause \in {BaseErr, Cur}, frames \in {InnerSite, OuterSite} :
          Built(MaxSliceCalls, "stacktrace.Classify", "", cause, <<ErrDB>>,
                stacktraceClassifySlice(heap, cause, CallerSlice, frames))
    /\ UNCHANGED <<ea, ser>>

\* stacktrace.Classify(cause, ErrTimeout): the arguments are put in a new array
LTraceClassifyArgs ==
    /\ \E frames \in {InnerSite, OuterSite} :
          Built(MaxSliceCalls, "stacktrace.Classify", "", Cur, <<ErrTimeout>>,
                stacktraceClassify(heap, Cur, <<ErrTimeout>>, frames))
    /\ UNCHANGED <<ea, ser>>

NextSlices ==
    \/ LClassifySlice
    \/ LWrapSlice
    \/ LTraceWrapSlice
    \/ LTraceClassifySlice
    \/ LTraceClassifyArgs

SpecSlices == InitSlices /\ [][NextSlices]_vars

\* ------------------------------------------------------------ reachability

\* every error an object refers to
Refs(h, n) ==
    (({h[n].cause} \cup Range(h[n].cls) \cup Range(h[n].parents)
        \cup Range(h[n].members)) \ {NIL})

RECURSIVE Closure(_, _, _)
Closure(h, frontier, seen) ==
    IF frontier = {} THEN seen
    ELSE LET new == (UNION {Refs(h, n) : n \in frontier}) \ (seen \cup frontier)
         IN  Closure(h, new, seen \cup frontier)

\* the errors reachable from e, e included
Reach(h, e) == IF e = NIL THEN {} ELSE Closure(h, {e}, {})

\* the transitive ancestors of a sentinel
Ancestors(h, s) == Reach(h, s) \ {s}

\* The layers Wrap and Classify put around an error: the wrappers and
\* carriers met from e down to the first error that is neither.
RECURSIVE Layers(_, _)
Layers(h, e) ==
    IF h[e].kind \in {"wrapError", "carrier"} THEN {e} \cup Layers(h, h[e].cause) ELSE {}

\* the error the layers were put around
RECURSIVE BaseOf(_, _)
BaseOf(h, e) ==
    IF h[e].kind \in {"wrapError", "carrier"} THEN BaseOf(h, h[e].cause) ELSE e

\* the classifications attached at any layer
Attached(h, e) ==
    (UNION {Range(h[c].cls) : c \in {l \in Layers(h, e) : h[l].kind = "carrier"}}) \ {NIL}

\* ------------------------------------------------------------------ claims

\* The errors a state adds to those of the states before it: the whole
\* vocabulary at the start, the error just returned after a call.
Subjects == IF ret.op = "none" THEN Addrs(heap) ELSE {ret.res} \ {NIL}

ClassifyOps == {"Classify", "stacktrace.Classify", "compat.Classify"}

\* C1: the error returned by Classify(cause, c...) renders exactly
\* cause.Error(), whatever the classifications are and also when the cause
\* is itself a wrapped or classified error.
C1_ClassifyKeepsMessage ==
    (ret.op \in ClassifyOps /\ ret.res # NIL)
        => ErrorOf(heap, ret.res) = ErrorOf(heap, ret.cause)

\* C1 witness: Classify has attached markers to an already wrapped error.
C1_Witness ==
    /\ ret.op = "Classify"
    /\ ret.res # NIL
    /\ ret.cls = <<ErrOther, ErrDisplay>>
    /\ heap[ret.cause].kind = "wrapError"
    /\ ErrorOf(heap, ret.res) = "l1: base"

\* C2: Wrap(text, cause, c...).Error() is text + ": " + cause.Error(), with
\* or without classifications, and nesting composes.
C2_WrapMessage ==
    (ret.op = "Wrap" /\ ret.res # NIL)
        => ErrorOf(heap, ret.res) = ret.text \o ": " \o ErrorOf(heap, ret.cause)

\* C2 witness: a classified Wrap around a classified Wrap of the base error
\* renders "l2: l1: base".
C2_Witness ==
    /\ ret.op = "Wrap"
    /\ Len(ret.cls) > 0
    /\ ret.res # NIL
    /\ heap[ret.cause].kind = "wrapError"
    /\ heap[heap[ret.cause].cause].kind = "carrier"
    /\ ErrorOf(heap, ret.res) = "l2: l1: base"

\* C3: each of the six Wrap / Classify functions returns nil for a nil
\* cause, whatever the classification list, and no carrier wraps nothing.
C3_NilPropagation ==
    /\ (ret.op # "none" /\ ret.cause = NIL) => ret.res = NIL
    /\ \A n \in Addrs(heap) : heap[n].kind = "carrier" => heap[n].cause # NIL

\* C3 witness: Classify was called on a nil cause with a non-nil sentinel.
C3_Witness ==
    /\ ret.op = "Classify"
    /\ ret.cause = NIL
    /\ ret.cls = <<ErrTimeout>>
    /\ ret.res = NIL

\* C4: errors.Is(Classify(baseErr, s), t) holds exactly when t is s or a
\* transitive ancestor of s, for every sentinel t of the hierarchy.
C4_HierarchicalMatching ==
    (ret.op = "Classify" /\ ret.res # NIL) =>
        \A t \in Sentinels(heap) :
            Is(heap, ret.res, t) <=> (t = ret.cls[1] \/ t \in Ancestors(heap, ret.cls[1]))

\* C4 witness: the classifying sentinel has two different parents, one of
\* which has a parent of its own, and a sentinel outside its ancestry exists.
C4_Witness ==
    /\ ret.op = "Classify"
    /\ ret.res # NIL
    /\ LET s == ret.cls[1] IN
        /\ Len(heap[s].parents) = 2
        /\ heap[s].parents[1] # heap[s].parents[2]
        /\ Len(heap[heap[s].parents[2]].parents) > 0
        /\ \E t \in Sentinels(heap) : t # s /\ t \notin Ancestors(heap, s)
        /\ Is(heap, ret.res, heap[heap[s].parents[2]].parents[1])

\* C5: for an error built by nesting Wrap and Classify, errors.Is holds
\* exactly for the targets the base error matches and the targets a
\* classification attached at some layer matches (the targets being errors
\* other than the wrapping layers themselves).
C5_NestedMatching ==
    \A e \in Subjects : \A t \in Addrs(heap) \ Layers(heap, e) :
        Is(heap, e, t) <=>
            t \in UNION {Reach(heap, x) : x \in {BaseOf(heap, e)} \cup Attached(heap, e)}

\* C5 witness: two layers with a sentinel each; the outermost error matches
\* both, their ancestor and the base error, and not the unattached sentinel.
C5_Witness ==
    /\ ret.op = "Wrap"
    /\ ret.res # NIL
    /\ ret.cls = <<ErrAttrs>>
    /\ ErrTimeout \in Attached(heap, ret.cause)
    /\ BaseOf(heap, ret.res) = BaseErr
    /\ Is(heap, ret.res, ErrTimeout)
    /\ Is(heap, ret.res, ErrDB)
    /\ Is(heap, ret.res, ErrAttrs)
    /\ Is(heap, ret.res, BaseErr)
    /\ ~Is(heap, ret.res, ErrOther)

Fallbacks == {"", "fallback"}

Displayables(h, e) == {d \in Reach(h, e) : h[d].kind = "displayable"}

\* C6: DisplayText is "" for nil, the stored message of a Displayable of the
\* error when the typed search finds one, and the outermost Error() text
\* otherwise; DisplayTextDefault differs only in returning the fallback in
\* the last case.
C6_DisplayText ==
    \A f \in Fallbacks :
        /\ DisplayText(heap, NIL) = ""
        /\ DisplayTextDefault(heap, NIL, f) = ""
        /\ \A e \in Subjects :
              IF Displayables(heap, e) # {}
              THEN \E d \in Displayables(heap, e) :
                      /\ DisplayText(heap, e) = heap[d].text
                      /\ DisplayTextDefault(heap, e, f) = heap[d].text
              ELSE /\ DisplayText(heap, e) = ErrorOf(heap, e)
                   /\ DisplayTextDefault(heap, e, f) = f

\* C6 witness: a wrapper whose own message is composed, and whose display
\* text is the displayable's message alone.
C6_Witness ==
    /\ ret.op = "Wrap"
    /\ ret.res # NIL
    /\ ret.cause = ErrDisplay
    /\ ErrorOf(heap, ret.res) = "l1: msg"
    /\ DisplayText(heap, ret.res) = "msg"
    /\ DisplayTextDefault(heap, ret.res, "fallback") = "msg"
    /\ DisplayTextDefault(heap, BaseErr, "fallback") = "fallback"

\* the errors ExtractAttrs goes to from an error, in the order it queues them
WalkSucc(h, n) ==
    IF n = NIL THEN <<>>
    ELSE (IF h[n].kind = "carrier" THEN h[n].cls ELSE <<>>)
         \o (IF IsMulti(h, n) THEN h[n].members
             ELSE IF Unwrap(h, n) = NIL THEN <<>> ELSE <<Unwrap(h, n)>>)

RECURSIVE Flatten(_)
Flatten(ss) == IF Len(ss) = 0 THEN <<>> ELSE Head(ss) \o Flatten(Tail(ss))

RECURSIVE Distinct(_, _)
\* the sequence without nil, without the members of seen, each error once
Distinct(q, seen) ==
    IF Len(q) = 0 THEN <<>>
    ELSE IF Head(q) = NIL \/ Head(q) \in seen THEN Distinct(Tail(q), seen)
    ELSE <<Head(q)>> \o Distinct(Tail(q), seen \cup {Head(q)})

RECURSIVE Discovery(_, _, _)
\* breadth-first discovery order, one level at a time
Discovery(h, level, seen) ==
    IF Len(level) = 0 THEN <<>>
    ELSE LET seen1 == seen \cup Range(level)
             below == Flatten([i \in 1..Len(level) |-> WalkSucc(h, level[i])])
         IN  level \o Discovery(h, Distinct(below, seen1), seen1)

DiscoveryOrder(h, e) == Discovery(h, Distinct(<<e>>, {}), {})

\* the attribute lists of the Attributed instances discovered, joined in order
DiscoveredAttrs(h, e) ==
    LET d == DiscoveryOrder(h, e)
    IN  Flatten([i \in 1..Len(d) |->
                    IF h[d[i]].kind = "attributed" THEN h[d[i]].attrs ELSE <<>>])

HasDuplicates(q) == \E i, j \in 1..Len(q) : i < j /\ q[i] = q[j]

\* the errors of the walk that lie on a cycle
OnCycle(h, e) ==
    {n \in Range(DiscoveryOrder(h, e)) :
        \E m \in Range(WalkSucc(h, n)) \ {NIL} : n \in Range(DiscoveryOrder(h, m))}

\* C7: when ExtractAttrs returns, its result is the concatenation, in
\* breadth-first first-discovery order, of the attribute lists of the distinct
\* Attributed instances reachable through classification lists, single
\* Unwrap targets and multi-cause members; it is nil for a nil error and when
\* no attribute was found.
C7_ExtractAttrsBFS ==
    ea.pc = "done" =>
        LET want == DiscoveredAttrs(heap, ea.root)
        IN  IF ea.root = NIL \/ Len(want) = 0
            THEN ea.out = NilAttrs
            ELSE ea.out = [nil |-> FALSE, items |-> want]

\* a multi-cause error with the three attributed members, classified again
\* with two of them: one instance is reached twice, two instances hold the
\* same pairs
C7_Witness ==
    /\ ea.pc = "done"
    /\ ea.root # NIL
    /\ heap[ea.root].kind = "carrier"
    /\ \E m \in Range(ea.order) : IsMulti(heap, m) /\ AttrA \in Range(heap[m].members)
    /\ AttrA \in Range(heap[ea.root].cls)
    /\ {AttrA, AttrB, AttrC} \subseteq Range(ea.order)
    /\ Len(ea.out.items) = 4

C8_Safe ==
    /\ ea.pc \in {"loop", "done"} => ~HasDuplicates(ea.order)
    /\ ea.pc = "done" =>
          \A a \in Range(DiscoveryOrder(heap, ea.root)) :
              heap[a].kind = "attributed" =>
                  \A i \in 1..Len(heap[a].attrs) :
                      ~ea.out.nil /\ heap[a].attrs[i] \in Range(ea.out.items)

\* C8: a call of ExtractAttrs returns, whatever cycles the graph has; no
\* error instance is expanded twice, and every attribute of an Attributed
\* instance in the graph is in the result.
C8_ExtractAttrsTerminates ==
    /\ []C8_Safe
    /\ (ea.pc = "loop") ~> (ea.pc = "done")

\* the call has returned attributes from a graph whose walk went round a cycle
C8_Witness ==
    /\ ea.pc = "done"
    /\ ea.root # NIL
    /\ OnCycle(heap, ea.root) # {}
    /\ Cyclic \in OnCycle(heap, ea.root)
    /\ ~ea.out.nil

\* the same for a cycle that runs through a multi-cause error
C8_WitnessMulti ==
    /\ ea.pc = "done"
    /\ ea.root # NIL
    /\ \E m \in OnCycle(heap, ea.root) : IsMulti(heap, m)
    /\ ~ea.out.nil

\* the errors the unwrap relation leads to from an error
UnwrapSucc(h, n) ==
    IF n = NIL THEN {}
    ELSE IF IsMulti(h, n) THEN Range(h[n].members) \ {NIL}
    ELSE {Unwrap(h, n)} \ {NIL}

RECURSIVE UnwrapClosure(_, _, _)
UnwrapClosure(h, frontier, seen) ==
    IF frontier = {} THEN seen
    ELSE LET next == UNION {UnwrapSucc(h, n) : n \in frontier}
         IN  UnwrapClosure(h, next \ (seen \cup frontier), seen \cup frontier)

\* the unwrap relation below the error contains a cycle
HasUnwrapCycle(h, e) ==
    e # NIL /\ \E n \in UnwrapClosure(h, {e}, {}) :
                   n \in UnwrapClosure(h, UnwrapSucc(h, n), {})

Children(t) == (IF t.cause.nil THEN <<>> ELSE <<t.cause>>) \o t.causes.items

RECURSIVE HasMessage(_, _)
\* some node of the tree is the terminal node with this message
HasMessage(t, message) ==
    \/ t = SerializedError(message)
    \/ \E i \in 1..Len(Children(t)) : HasMessage(Children(t)[i], message)

\* C9: serializing an error whose unwrap relation has a cycle returns, and
\* the result holds the terminal node "(circular reference)" (stated for the
\* default options).
C9_CyclicSerializationTerminates ==
    /\ (ser.pc = "running" /\ ser.cfg = defaultConfig /\ HasUnwrapCycle(heap, ser.root))
          => ENABLED MarshalReturn
    /\ (ser.pc = "done" /\ ser.cfg = defaultConfig /\ HasUnwrapCycle(heap, ser.root))
          => HasMessage(ser.out, CircularReference)

\* the call on the self-referential error is running and will never return:
\* the errors.As of IsDisplayable goes round the cycle for ever
C9_Witness ==
    /\ ser.pc = "running"
    /\ ser.cfg = defaultConfig
    /\ ser.root = Cyclic
    /\ Unwrap(heap, Cyclic) = Cyclic
    /\ As(heap, ser.root, "displayable") = DIVERGES
    /\ ToSerializedError(heap, ser.root, ser.cfg).st = "diverges"
    /\ ~ENABLED NextJSON

\* a cyclic graph the serializer does come back from, with the marker
C9_TerminatingCase ==
    /\ ser.pc = "done"
    /\ ser.cfg = defaultConfig
    /\ HasUnwrapCycle(heap, ser.root)
    /\ HasMessage(ser.out, CircularReference)

RECURSIVE DepthLimited(_, _, _)
\* every node at level k is the bare marker, so nothing lies below level k
DepthLimited(t, level, k) ==
    IF level = k THEN t = SerializedError(MaxDepthReached)
    ELSE \A i \in 1..Len(Children(t)) : DepthLimited(Children(t)[i], level + 1, k)

RECURSIVE ChainOf(_, _)
\* the errors of a chain of plain wrappers from the outermost on; <<>> if
\* the error is not such a chain
ChainOf(h, e) ==
    IF h[e].kind = "errorString" THEN <<e>>
    ELSE IF h[e].kind = "wrapError" /\ h[e].cause # NIL
         THEN LET rest == ChainOf(h, h[e].cause)
              IN  IF rest = <<>> THEN <<>> ELSE <<e>> \o rest
    ELSE <<>>

RECURSIVE Spine(_)
\* the messages down the cause fields of a tree with no causes lists
Spine(t) ==
    IF t.nil THEN <<>>
    ELSE <<t.message>> \o Spine(t.cause)

RECURSIVE Linear(_)
Linear(t) == t.nil \/ (t.causes = NilCauses /\ Linear(t.cause))

Min(a, b) == IF a < b THEN a ELSE b

\* C10: in a serialized error every node at level maxDepth is the terminal
\* node "(max depth reached)" and nothing lies below it; a chain of n plain
\* wrappers is serialized (standard errors included) as its first min(n, k)
\* errors, followed by one marker exactly when k < n.
C10_DepthLimit ==
    (ser.pc = "done" /\ ser.root # NIL) =>
        LET k == ser.cfg.maxDepth
            chain == ChainOf(heap, ser.root)
            n == Len(chain)
        IN  /\ ~ser.out.nil
            /\ DepthLimited(ser.out, 0, k)
            /\ (n > 0 /\ ser.cfg.includeStandardErrors) =>
                  /\ Linear(ser.out)
                  /\ Spine(ser.out) =
                        [i \in 1..Min(n, k) |-> ErrorOf(heap, chain[i])]
                        \o (IF k < n THEN <<MaxDepthReached>> ELSE <<>>)

\* the 5-level chain under maxDepth 3: three real nodes, then the marker
C10_Witness ==
    /\ ser.pc = "done"
    /\ ser.root # NIL
    /\ Len(ChainOf(heap, ser.root)) = 5
    /\ ser.cfg = WithMaxDepth(defaultConfig, 3)
    /\ Len(Spine(ser.out)) = 4
    /\ ser.out.cause.cause.cause = SerializedError(MaxDepthReached)

\* the 5-level chain under maxDepth 5: all five levels, no marker
C10_WitnessAll ==
    /\ ser.pc = "done"
    /\ ser.root # NIL
    /\ Len(ChainOf(heap, ser.root)) = 5
    /\ ser.cfg = WithMaxDepth(defaultConfig, 5)
    /\ Len(Spine(ser.out)) = 5
    /\ ~HasMessage(ser.out, MaxDepthReached)

\* a graph with a multi-cause error cut at the depth limit
C10_WitnessMulti ==
    /\ ser.pc = "done"
    /\ ser.root # NIL
    /\ IsMulti(heap, ser.root)
    /\ ser.cfg.maxDepth = 1
    /\ Len(ser.out.causes.items) > 1

RECURSIVE NonNil(_)
\* the non-nil members of a list, in order
NonNil(q) ==
    IF Len(q) = 0 THEN <<>>
    ELSE (IF Head(q) # NIL THEN <<Head(q)>> ELSE <<>>) \o NonNil(Tail(q))

IsMarker(t) ==
    t = SerializedError(MaxDepthReached) \/ t = SerializedError(CircularReference)

RECURSIVE CausesExclusive(_)
\* no node of the tree has both a cause and a non-empty causes list, and a
\* node with one of the two marker messages has neither
CausesExclusive(t) ==
    /\ ~(~t.cause.nil /\ Len(t.causes.items) > 0)
    /\ t.message \in {MaxDepthReached, CircularReference} => Len(Children(t)) = 0
    /\ \A i \in 1..Len(Children(t)) : CausesExclusive(Children(t)[i])

\* C11: no node of a serialized tree has both a cause and a non-empty causes
\* list and marker nodes have neither; the node of a multi-cause error has
\* no cause and one entry per non-nil member, in member order (standard
\* errors included), and the node of any other error has no causes list.
C11_CauseOrCauses ==
    (ser.pc = "done" /\ ser.root # NIL) =>
        /\ CausesExclusive(ser.out)
        /\ (IsMulti(heap, ser.root) /\ ~IsMarker(ser.out) /\ ser.cfg.includeStandardErrors) =>
              LET members == NonNil(heap[ser.root].members)
                  items == ser.out.causes.items
              IN  /\ ser.out.cause.nil
                  /\ Len(items) = Len(members)
                  /\ \A i \in 1..Len(items) :
                        \/ IsMarker(items[i])
                        \/ items[i].message = ErrorOf(heap, members[i])
        /\ (~IsMulti(heap, ser.root)) => ser.out.causes = NilCauses

\* a multi-cause error with a nil member and two others, serialized with
\* both of them under causes
C11_Witness ==
    /\ ser.pc = "done"
    /\ ser.root # NIL
    /\ IsMulti(heap, ser.root)
    /\ NIL \in Range(heap[ser.root].members)
    /\ ser.cfg = defaultConfig
    /\ Len(ser.out.causes.items) = 2
    /\ ser.out.causes.items[1].message = ErrorOf(heap, Cyclic)
    /\ ser.out.causes.items[2].message = ErrorOf(heap, Cur)
    /\ ser.out.cause.nil

\* a plain error bearing no classification: not a classification itself,
\* not a Carrier, not a wrapper around a Carrier
PlainUnclassified(h, e) ==
    /\ ~IsClassifiedType(h, e)
    /\ ~isCarrier(h, e)
    /\ ~isCarrier(h, Unwrap(h, e))

\* the cause the serializer considers: the Unwrap target, or the cause of
\* the Carrier that is the Unwrap target
EffectiveCause(h, e) ==
    IF isCarrier(h, Unwrap(h, e)) THEN Unwrap(h, Unwrap(h, e)) ELSE Unwrap(h, e)

RECURSIVE CountKept(_, _, _)
\* the members that are not left out under the claim's rule
CountKept(h, q, include) ==
    IF Len(q) = 0 THEN 0
    ELSE (IF Head(q) # NIL /\ (include \/ ~PlainUnclassified(h, Head(q))) THEN 1 ELSE 0)
         + CountKept(h, Tail(q), include)

\* C12: with includeStandardErrors disabled a cause or member is left out
\* exactly when it is a plain error bearing no classification (a Carrier, or
\* a wrapper whose unwrap target is a Carrier, is kept); with the option
\* enabled nothing is left out.
C12_StandardErrorFilter ==
    (ser.pc = "done" /\ ser.root # NIL /\ ~IsMarker(ser.out)) =>
        LET include == ser.cfg.includeStandardErrors
            e == EffectiveCause(heap, ser.root)
        IN  IF IsMulti(heap, ser.root)
            THEN Len(ser.out.causes.items) = CountKept(heap, heap[ser.root].members, include)
            ELSE ser.out.cause.nil <=> (e = NIL \/ (~include /\ PlainUnclassified(heap, e)))

\* with the option disabled, a multi-cause error whose first member is a
\* Carrier with classifications and whose second member is a sentinel has
\* been serialized: the Carrier is left out
C12_Witness ==
    /\ ser.pc = "done"
    /\ ser.root # NIL
    /\ ~ser.cfg.includeStandardErrors
    /\ ser.cfg.maxDepth = defaultConfig.maxDepth
    /\ IsMulti(heap, ser.root)
    /\ Len(heap[ser.root].members) = 2
    /\ isCarrier(heap, heap[ser.root].members[1])
    /\ Len(heap[heap[ser.root].members[1]].cls) > 0
    /\ heap[ser.root].members[2] = ErrNotFound
    /\ Len(ser.out.causes.items) = 1
    /\ ser.out.causes.items[1].message = "not found"

\* C13: the stack_trace of the root node is the first min(F, N) frames of
\* the extracted trace, in captured order, for every limit N >= 0 (the
\* maximum number of frames that WithMaxStackFrames documents).
C13_FirstMinFrames ==
    (ser.pc = "done" /\ ser.root # NIL /\ ~IsMarker(ser.out) /\ ser.cfg.maxStackFrames >= 0) =>
        LET frames == Extract(heap, ser.root)
        IN  ser.out.stack_trace = SubSeq(frames, 1, Min(Len(frames), ser.cfg.maxStackFrames))

\* what serializeStackTrace does: for a limit N > 0 the stack_trace of the
\* root node is the first min(F, N) frames of the extracted trace, in
\* captured order; for N = 0 the guard fails and all F frames are included.
C13_StackFrameLimit ==
    (ser.pc = "done" /\ ser.root # NIL /\ ~IsMarker(ser.out) /\ ser.cfg.maxStackFrames >= 0) =>
        LET frames == Extract(heap, ser.root)
            N == ser.cfg.maxStackFrames
        IN  ser.out.stack_trace =
                IF N > 0 THEN SubSeq(frames, 1, Min(Len(frames), N)) ELSE frames

\* a trace of two frames serialized under a limit of one
C13_Witness ==
    /\ ser.pc = "done"
    /\ ser.root # NIL
    /\ ser.cfg.maxStackFrames = 1
    /\ Len(Extract(heap, ser.root)) = 2
    /\ ser.out.stack_trace = <<"main.run">>

\* the same trace under a limit of zero: both frames are there, where the
\* documented maximum allows none
C13_WitnessZero ==
    /\ ser.pc = "done"
    /\ ser.root # NIL
    /\ ser.cfg.maxStackFrames = 0
    /\ Len(ser.out.stack_trace) = 2

\* C14: a call with a nil error returns, with an absent result and without
\* failing, whatever the options.
C14_NilInput ==
    (ser.pc # "idle" /\ ser.root = NIL) =>
        /\ ser.pc \in {"running", "done"}
        /\ ser.pc = "running" =>
              ToSerializedError(heap, NIL, ser.cfg) = [st |-> "ok", node |-> NilNode, visited |-> {}]
        /\ ser.pc = "done" => ser.out = NilNode

\* the call with a nil error and a maxDepth of 0 has returned nil
C14_Witness ==
    /\ ser.pc = "done"
    /\ ser.root = NIL
    /\ ser.cfg.maxDepth = 0
    /\ ser.out = NilNode

\* every finished call holds the result the same call gives when run alone
C15_SameAsAlone ==
    /\ \A i \in 1..NProcs :
          ea[i].pc = "done" => ea[i].out = ExtractAttrs(heap, ea[i].root)
    /\ ser.pc = "done" => ser.out = ToSerializedError(heap, ser.root, ser.cfg).node
    /\ ser.pc = "panicked" => ToSerializedError(heap, ser.root, ser.cfg).st = "panics"
    /\ ret.op = "DisplayText" => ret.text = DisplayText(heap, ret.cause)
    /\ ret.op = "Is" => (ret.text = "true" <=> Is(heap, ret.cause, ret.res))

\* C15: traversals interleaved over one finished graph each return what they
\* return when run alone (so a repeated call returns the same again), no
\* step of any of them changes the graph, and no caller's step changes
\* another caller's visited set or queue.
C15_ConcurrentTraversals ==
    /\ []C15_SameAsAlone
    /\ [][heap' = heap]_vars
    /\ [][\A i, j \in 1..NProcs : (i # j /\ ea'[i] # ea[i]) => ea'[j] = ea[j]]_vars

\* two calls of ExtractAttrs on the same root are in flight with different
\* visited sets, while a serialization of it is running
C15_Witness ==
    /\ ea[1].pc = "loop"
    /\ ea[2].pc = "loop"
    /\ ea[1].root = ea[2].root
    /\ ea[1].visited # {}
    /\ ea[2].visited # {}
    /\ ea[1].visited # ea[2].visited
    /\ ser.pc = "running"
    /\ ser.root = ea[1].root
    /\ ret.op = "DisplayText"
    /\ HasUnwrapCycle(heap, Cyclic)

\* The carrier a call returned: the result itself, or the carrier below the
\* plain wrapper that Wrap puts around it.
CarrierOf(h, r) ==
    IF r = NIL THEN NIL
    ELSE IF h[r].kind = "carrier" THEN r
    ELSE IF h[r].kind = "wrapError" /\ h[h[r].cause].kind = "carrier" THEN h[r].cause
    ELSE NIL

\* the first error of kind T in a list, NIL when there is none
RECURSIVE FirstOfKind(_, _, _)
FirstOfKind(h, list, T) ==
    IF list = <<>> THEN NIL
    ELSE IF Head(list) # NIL /\ h[Head(list)].kind = T THEN Head(list)
    ELSE FirstOfKind(h, Tail(list), T)

\* The last call attached a trace to an error that already carries another
\* trace, taken at a different call site.
TwoTraces ==
    /\ ret.op \in {"stacktrace.Wrap", "stacktrace.Classify"}
    /\ CarrierOf(heap, ret.res) # NIL
    /\ Extract(heap, ret.cause) # <<>>
    /\ Extract(heap, ret.cause) # heap[FirstOfKind(heap, heap[CarrierOf(heap, ret.res)].cls, "traced")].frames

\* C16: when a chain holds two traces, one attached by the outer call and
\* one by an inner call on its cause, stacktrace.Extract returns the frames
\* of the outer call's trace, as TestMultipleTraces expects.
C16_OuterTraceFirst ==
    TwoTraces =>
        Extract(heap, ret.res)
            = heap[FirstOfKind(heap, heap[CarrierOf(heap, ret.res)].cls, "traced")].frames

\* what stacktrace.Extract does after a stacktrace call: it returns the
\* frames of exactly one trace, the one found in the cause chain, since a
\* carrier is searched cause first; the outer call's own trace is returned
\* only when the cause chain holds none.
C16_FirstTraceCauseFirst ==
    (ret.op \in {"stacktrace.Wrap", "stacktrace.Classify"} /\ CarrierOf(heap, ret.res) # NIL) =>
        LET own == FirstOfKind(heap, heap[CarrierOf(heap, ret.res)].cls, "traced")
        IN  /\ own # NIL
            /\ Extract(heap, ret.res) \in {InnerSite, OuterSite}
            /\ Extract(heap, ret.res) =
                  IF Extract(heap, ret.cause) # <<>> THEN Extract(heap, ret.cause)
                  ELSE heap[own].frames

\* an outer stacktrace.Wrap at one site over an inner stacktrace.Classify at
\* the other: the inner trace is the one returned
C16_Witness ==
    /\ TwoTraces
    /\ ret.op = "stacktrace.Wrap"
    /\ heap[ret.cause].kind = "carrier"
    /\ heap[heap[ret.cause].cause].kind = "errorString"
    /\ Extract(heap, ret.cause) = InnerSite
    /\ Extract(heap, ret.res) = InnerSite
    /\ heap[FirstOfKind(heap, heap[CarrierOf(heap, ret.res)].cls, "traced")].frames = OuterSite

\* The pairs the parsing rules give for an argument list, rule by rule: an
\* Attr as it is, the elements of a slice, a string that is not last with the
\* next argument as its value, anything else under the key "!BADKEY".
RECURSIVE PairsOf(_)
PairsOf(args) ==
    IF args = <<>> THEN <<>>
    ELSE LET a == Head(args)
         IN  IF a.type = "Attr" THEN <<a.attrs[1]>> \o PairsOf(Tail(args))
             ELSE IF a.type \in {"[]Attr", "AttrList"} THEN a.attrs \o PairsOf(Tail(args))
             ELSE IF a.type = "string" /\ Len(args) > 1
                  THEN << [key |-> a.str, value |-> args[2].str] >> \o PairsOf(Tail(Tail(args)))
             ELSE << [key |-> BADKEY, value |-> a.str] >> \o PairsOf(Tail(args))

\* C17: Attrs(args...) turns its arguments into pairs by the four rules (Attr
\* as is; []Attr / AttrList element by element; a string that is not last is
\* a key and consumes the next argument as its value; any other argument and
\* a string in last position become a value under "!BADKEY"); ExtractAttrs on
\* the result returns the pairs in argument order; Attrs() with no arguments
\* gives an attributed value with no attributes.
C17_AttrsParsing ==
    ret.op = "Attrs" =>
        /\ heap[ret.res].kind = "attributed"
        /\ heap[ret.res].attrs = PairsOf(ret.args)
        /\ ret.args = <<>> => heap[ret.res].attrs = <<>>
        /\ ea.pc = "done" =>
              /\ ea.out.items = PairsOf(ret.args)
              /\ ea.out.nil = (PairsOf(ret.args) = <<>>)

\* a key whose value is an Attr, followed by a string with nothing after it
C17_Witness ==
    /\ ret.op = "Attrs"
    /\ ea.pc = "done"
    /\ Len(ret.args) = 3
    /\ ret.args[1] = StringArg("key1")
    /\ ret.args[2].type = "Attr"
    /\ ret.args[3] = StringArg("value1")
    /\ ea.out.items = << [key |-> "key1", value |-> "k2=v2"],
                         [key |-> BADKEY, value |-> "value1"] >>

\* Attrs() with no arguments
C17_WitnessEmpty ==
    /\ ret.op = "Attrs"
    /\ ret.args = <<>>
    /\ ea.pc = "done"
    /\ ea.out = NilAttrs

\* what compat attaches for the classification e: e itself when its type is
\* Classified, otherwise a wrapper around e
AttachedFor(h, c, e) ==
    IF IsClassifiedType(h, e) THEN c = e
    ELSE c # e /\ h[c].kind = "errorWrapper" /\ h[c].cause = e

\* C18: compat.Wrap and compat.Classify take any errors as classifications.
\* For a non-nil cause the result matches the cause and every non-nil
\* classification under errors.Is; nil entries are ignored; a classification
\* whose type is Classified is attached as it is, not wrapped again; the
\* message is "text: cause" for Wrap and the cause's message for Classify.
C18_CompatPreservesIdentity ==
    (ret.op \in {"compat.Wrap", "compat.Classify"} /\ ret.cause # NIL) =>
        LET given == NonNil(ret.cls)
            c == CarrierOf(heap, ret.res)
        IN  /\ ret.res # NIL
            /\ Is(heap, ret.res, ret.cause)
            /\ \A i \in 1..Len(given) : Is(heap, ret.res, given[i])
            /\ given # <<>> =>
                  /\ c # NIL
                  /\ Len(heap[c].cls) = Len(given)
                  /\ \A i \in 1..Len(given) : AttachedFor(heap, heap[c].cls[i], given[i])
            /\ ErrorOf(heap, ret.res) =
                  IF ret.op = "compat.Wrap"
                  THEN ret.text \o ": " \o ErrorOf(heap, ret.cause)
                  ELSE ErrorOf(heap, ret.cause)

\* compat.Wrap over the result of an earlier call, with a standard error, a
\* nil entry and a displayable as classifications
C18_Witness ==
    /\ ret.op = "compat.Wrap"
    /\ ret.cause > Len(Vocabulary)
    /\ ret.cls = <<ErrStd, NIL, ErrDisplay>>
    /\ Is(heap, ret.res, ErrStd)
    /\ Is(heap, ret.res, ErrDisplay)
    /\ Len(heap[CarrierOf(heap, ret.res)].cls) = 2
    /\ heap[heap[CarrierOf(heap, ret.res)].cls[1]].kind = "errorWrapper"
    /\ heap[CarrierOf(heap, ret.res)].cls[2] = ErrDisplay

\* C19: HasAttrs(err) is true exactly when the breadth-first walk of
\* ExtractAttrs reaches at least one attributed error, also on graphs with
\* sentinels of any parent list.
C19_HasAttrsIffExtractReaches ==
    ea.pc = "done" => (ea.has <=> ea.found # {})

\* a sentinel whose second parent is an attribute list: HasAttrs says yes,
\* ExtractAttrs finds nothing
C19_Witness ==
    /\ ea.pc = "done"
    /\ heap[ea.root].kind = "sentinel"
    /\ Len(heap[ea.root].parents) = 2
    /\ heap[heap[ea.root].parents[1]].kind = "sentinel"
    /\ heap[ea.root].parents[2] = AttrA
    /\ ea.has
    /\ ea.found = {}
    /\ ea.out = NilAttrs

\* the two agree when attribute lists are first parents only
C19_FirstParentCase ==
    /\ ea.pc = "done"
    /\ heap[ea.root].kind = "carrier"
    /\ heap[heap[ea.root].cls[1]].parents = <<AttrC>>
    /\ ea.has
    /\ ea.out = [nil |-> FALSE, items |-> heap[AttrC].attrs]

\* the positions of the classifications of carrier c that hold a displayable
DisplayableCls(h, c) ==
    {i \in 1..Len(h[c].cls) : Displayables(h, h[c].cls[i]) # {}}

Earliest(S) == CHOOSE i \in S : \A j \in S : i <= j

\* C20: the typed search of a carrier examines the cause and its whole chain
\* first and the classifications in list order after it, and the first match
\* wins: with a displayable in the cause chain and another among the
\* classifications DisplayText returns the message of the one in the cause
\* chain; when only classifications match, the earliest in the list wins.
C20_CauseBeforeClassifications ==
    CarrierOf(heap, ret.res) # NIL =>
        LET c == CarrierOf(heap, ret.res)
            found == As(heap, c, "displayable")
            inCls == DisplayableCls(heap, c)
        IN  /\ As(heap, ret.res, "displayable") = found
            /\ Displayables(heap, heap[c].cause) # {} =>
                  /\ found \in Displayables(heap, heap[c].cause)
                  /\ found = As(heap, heap[c].cause, "displayable")
                  /\ DisplayText(heap, ret.res) = DisplayText(heap, heap[c].cause)
            /\ (Displayables(heap, heap[c].cause) = {} /\ inCls # {}) =>
                  /\ found = heap[c].cls[Earliest(inCls)]
                  /\ DisplayText(heap, ret.res) = heap[heap[c].cls[Earliest(inCls)]].text
            /\ (Displayables(heap, heap[c].cause) = {} /\ inCls = {}) =>
                  /\ found = NIL
                  /\ DisplayText(heap, ret.res) = ErrorOf(heap, ret.res)

\* "first" in the cause chain below a plain wrapper, "second" among the
\* classifications: the text is "first"
C20_Witness ==
    /\ ret.op = "Classify"
    /\ ret.cls = <<DSecond>>
    /\ heap[ret.cause].kind = "wrapError"
    /\ DFirst \in Displayables(heap, ret.cause)
    /\ DisplayText(heap, ret.res) = "first"

\* only classifications match: the earliest in the list gives the text
C20_WitnessClsOnly ==
    /\ ret.op = "Classify"
    /\ ret.cls = <<DThird, DSecond>>
    /\ Displayables(heap, ret.cause) = {}
    /\ DisplayText(heap, ret.res) = "third"

\* the attribute lists of the Attributed instances in a list of errors, each
\* instance once, joined in list order
AttrsOfList(h, q) ==
    LET d == Distinct(q, {})
    IN  Flatten([i \in 1..Len(d) |->
                    IF h[d[i]].kind = "attributed" THEN h[d[i]].attrs ELSE <<>>])

IsPrefix(p, q) == Len(p) <= Len(q) /\ SubSeq(q, 1, Len(p)) = p

\* C21: ExtractAttrs walks level by level, not depth first. What the error
\* itself leads to comes first, in order (for a Carrier its classifications in
\* list order and then its cause, for a multi-cause error its members in
\* member order), and the attributes of the Attributed markers among them
\* precede every attribute found deeper: the attributes of a Carrier's own
\* markers precede those of its cause's subgraph, and for the members
\* [multi-cause error with member a1, a2] those of a2 precede those of a1.
C21_LevelOrder ==
    (ea.pc = "done" /\ ea.root # NIL /\ heap[ea.root].kind # "attributed") =>
        LET direct == WalkSucc(heap, ea.root)
        IN  /\ IsPrefix(<<ea.root>> \o Distinct(direct, {ea.root}), ea.order)
            /\ IsPrefix(AttrsOfList(heap, direct), ea.out.items)

\* the members [multi-cause error holding AttrA, AttrC]: the pairs of AttrC
\* come before those of AttrA
C21_Witness ==
    /\ ea.pc = "done"
    /\ ea.root # NIL
    /\ IsMulti(heap, ea.root)
    /\ Len(heap[ea.root].members) = 2
    /\ heap[ea.root].members[2] = AttrC
    /\ heap[ea.root].members[1] # NIL
    /\ IsMulti(heap, heap[ea.root].members[1])
    /\ heap[heap[ea.root].members[1]].members = <<AttrA, AttrA>>
    /\ ea.out.items = heap[AttrC].attrs \o heap[AttrA].attrs

\* a Carrier with the markers [AttrC, AttrA] over a cause that holds AttrB
C21_WitnessCarrier ==
    /\ ea.pc = "done"
    /\ ea.root # NIL
    /\ heap[ea.root].kind = "carrier"
    /\ heap[ea.root].cls = <<AttrC, AttrA>>
    /\ AttrB \in Range(ea.order)
    /\ ea.out.items = heap[AttrC].attrs \o heap[AttrA].attrs \o heap[AttrB].attrs

RECURSIVE EmittedChain(_, _)
\* The errors that get a node along the cause fields when nothing is left
\* out: each error's Unwrap target, or the cause of the Carrier that is the
\* Unwrap target.  For errors without a cycle.
EmittedChain(h, e) ==
    IF e = NIL THEN <<>> ELSE <<e>> \o EmittedChain(h, EffectiveCause(h, e))

RECURSIVE NodesOf(_)
\* the nodes down the cause fields of a tree
NodesOf(t) == IF t.nil THEN <<>> ELSE <<t>> \o NodesOf(t.cause)

\* what a call from depth - 1 puts into the cause field for the error e
CauseNode(h, e, cfg, depth) ==
    IF e = NIL \/ (~cfg.includeStandardErrors /\ ~isErrxError(h, e)) THEN NilNode
    ELSE toSerializedError(h, e, cfg, {}, depth).node

\* no error of struct kind is reachable from e
NoValueError(h, e) == \A x \in Reach(h, e) : h[x].kind # "valueError"

\* C22: the serialization of a wrapper whose unwrap target is a Carrier
\* returns, and a Carrier that is the single unwrap target of an emitted node
\* gets no node of its own: the node's cause is the serialization of the
\* Carrier's cause one level down, absent when that cause is nil or left
\* out.  The nodes down the cause fields are therefore the errors met by
\* stepping over such Carriers, one node each, up to the depth limit.
C22_CarrierTransparency ==
  /\ (ser.pc = "running" /\ ser.root # NIL /\ NoValueError(heap, ser.root)
         /\ heap[ser.root].kind = "wrapError" /\ isCarrier(heap, Unwrap(heap, ser.root)))
        => ToSerializedError(heap, ser.root, ser.cfg).st = "ok"
  /\
    (ser.pc = "done" /\ ser.root # NIL) =>
        LET nodes == NodesOf(ser.out)
            errs == EmittedChain(heap, ser.root)
        IN  /\ Len(nodes) <= Len(errs)
            /\ ser.cfg.includeStandardErrors =>
                  Len(nodes) = Min(Len(errs), ser.cfg.maxDepth + 1)
            /\ \A i \in 1..Len(nodes) :
                  IF IsMarker(nodes[i]) THEN i = ser.cfg.maxDepth + 1
                  ELSE /\ nodes[i].message = ErrorOf(heap, errs[i])
                       /\ nodes[i].causes = NilCauses
                       /\ isCarrier(heap, Unwrap(heap, errs[i])) =>
                             nodes[i].cause =
                                CauseNode(heap, heap[Unwrap(heap, errs[i])].cause, ser.cfg, i)

\* the call on Wrap("ctx", base, other) has panicked
C22_Witness ==
    /\ ser.pc = "panicked"
    /\ ser.cfg = defaultConfig
    /\ ret.calls = 1
    /\ ret.op = "Wrap"
    /\ ret.cause = BaseErr
    /\ ret.cls = <<ErrOther>>
    /\ ser.root = ret.res
    /\ heap[ser.root].kind = "wrapError"
    /\ heap[Unwrap(heap, ser.root)].cls = <<ErrOther>>

\* The Carrier layers of a node: the error itself when it is a Carrier, then
\* the first two consecutive Carriers reached by Unwrap.
CarrierLayers(h, e) ==
    LET c1 == Unwrap(h, e)
        c2 == Unwrap(h, c1)
    IN  (IF isCarrier(h, e) THEN <<e>> ELSE <<>>)
        \o (IF ~isCarrier(h, c1) THEN <<>>
            ELSE IF ~isCarrier(h, c2) THEN <<c1>>
            ELSE <<c1, c2>>)

\* the classification markers attached at those layers
LayerMarkers(h, e) ==
    LET layers == CarrierLayers(h, e)
    IN  Range(Flatten([i \in 1..Len(layers) |-> h[layers[i]].cls])) \ {NIL}

\* a marker that is itself none of the three enriching kinds
PlainMarker(h, c) == h[c].kind \notin {"displayable", "attributed", "traced"}

\* the texts the claim lists for the node of e
SentinelTextsOf(h, e) ==
    {ErrorOf(h, c) : c \in {x \in LayerMarkers(h, e) : PlainMarker(h, x)}}
    \cup (IF IsClassifiedType(h, e) /\ PlainMarker(h, e) THEN {ErrorOf(h, e)} ELSE {})

\* C23: the serialization of an error with markers attached returns, and
\* the sentinels of a node are the texts of exactly the markers attached at
\* the node's own Carrier layers that are themselves neither Displayable nor
\* Attributed nor Traced, and the node's own text when it is such a marker;
\* parents of a listed sentinel are not listed and no text appears twice.
C23_SentinelsOfNode ==
  /\ (ser.pc = "running" /\ ser.root # NIL /\ NoValueError(heap, ser.root)
         /\ LayerMarkers(heap, ser.root) # {})
        => ToSerializedError(heap, ser.root, ser.cfg).st = "ok"
  /\
    (ser.pc = "done" /\ ser.root # NIL) =>
        LET nodes == NodesOf(ser.out)
            errs == EmittedChain(heap, ser.root)
        IN  \A i \in 1..Len(nodes) :
                ~IsMarker(nodes[i]) =>
                    /\ Range(nodes[i].sentinels) = SentinelTextsOf(heap, errs[i])
                    /\ ~HasDuplicates(nodes[i].sentinels)

\* the call on Classify(base, timeout) has panicked: no sentinels list is
\* produced for an error that has a marker attached
C23_Witness ==
    /\ ser.pc = "panicked"
    /\ ser.cfg = defaultConfig
    /\ ret.calls = 1
    /\ ret.op = "Classify"
    /\ ret.cls = <<ErrTimeout>>
    /\ ser.root = ret.res

\* Wrap("ctx", tagged), tagged being a sentinel whose parent is an attribute
\* list: the node of tagged does not list its own text
C23_TaggedCase ==
    /\ ser.pc = "done"
    /\ ser.cfg = defaultConfig
    /\ ret.calls = 1
    /\ ret.op = "Wrap"
    /\ ret.cause = LTagged
    /\ ser.out.cause.message = "tagged"
    /\ ser.out.cause.sentinels = <<>>

\* the typed search finds a Displayable, an Attributed or a Traced value in
\* the marker or among its ancestors
Enriched(h, c) ==
    \E x \in Reach(h, c) : h[x].kind \in {"displayable", "attributed", "traced"}

\* the texts of the markers the serializer takes for sentinels, in a list of
\* Carriers
PureTexts(h, layers) ==
    {ErrorOf(h, c) : c \in {x \in Range(Flatten([i \in 1..Len(layers) |-> h[layers[i]].cls])) \ {NIL} :
                               ~Enriched(h, x)}}

\* the Carriers directly below e, from the third on
RECURSIVE CarriersBelow(_, _)
CarriersBelow(h, e) ==
    IF isCarrier(h, Unwrap(h, e)) THEN <<Unwrap(h, e)>> \o CarriersBelow(h, Unwrap(h, e))
    ELSE <<>>

\* C24: the serialization of an error with Carriers directly beneath it
\* returns, and the sentinels of a node come from the node's own
\* classification list (when the node is a Carrier) and from the first two
\* consecutive Carriers reached by following Unwrap from the node, and from
\* no Carrier further down: with three Carriers directly beneath a wrapper,
\* what only the third holds is not in the wrapper's node.
C24_TwoLevelLookAhead ==
  /\ (ser.pc = "running" /\ ser.root # NIL /\ NoValueError(heap, ser.root)
         /\ Len(CarriersBelow(heap, ser.root)) > 0)
        => ToSerializedError(heap, ser.root, ser.cfg).st = "ok"
  /\
    (ser.pc = "done" /\ ser.root # NIL) =>
        LET nodes == NodesOf(ser.out)
            errs == EmittedChain(heap, ser.root)
        IN  \A i \in 1..Len(nodes) :
                ~IsMarker(nodes[i]) =>
                    LET e == errs[i]
                        below == CarriersBelow(heap, e)
                        near == (IF isCarrier(heap, e) THEN <<e>> ELSE <<>>)
                                \o SubSeq(below, 1, Min(2, Len(below)))
                        self == IF IsClassifiedType(heap, e) /\ ~Enriched(heap, e)
                                THEN {ErrorOf(heap, e)} ELSE {}
                    IN  /\ near = CarrierLayers(heap, e)
                        /\ Range(nodes[i].sentinels) = PureTexts(heap, near) \cup self
                        /\ \A j \in 3..Len(below) :
                              \A t \in PureTexts(heap, <<below[j]>>) \ PureTexts(heap, near) :
                                  t \notin Range(nodes[i].sentinels)

\* the call on a wrapper over the Carriers of other, timeout and db has
\* panicked
C24_Witness ==
    /\ ser.pc = "panicked"
    /\ ser.cfg = defaultConfig
    /\ heap[ser.root].kind = "wrapError"
    /\ Len(CarriersBelow(heap, ser.root)) = 3
    /\ heap[CarriersBelow(heap, ser.root)[1]].cls = <<ErrOther>>
    /\ heap[CarriersBelow(heap, ser.root)[2]].cls = <<ErrTimeout>>
    /\ heap[CarriersBelow(heap, ser.root)[3]].cls = <<ErrDB, ErrAttrs>>

\* C25: the attributes of every emitted node that is not a marker are the
\* result of ExtractAttrs on the node's error: the attribute lists of all the
\* Attributed instances of the error's whole subgraph in breadth-first
\* order.  An Attributed marker deep in a chain is therefore repeated in the
\* node of every emitted ancestor, and a node with no Attributed instance
\* beneath it has no attributes.
C25_AttributesOfNode ==
    (ser.pc = "done" /\ ser.root # NIL) =>
        LET nodes == NodesOf(ser.out)
            errs == EmittedChain(heap, ser.root)
        IN  \A i \in 1..Len(nodes) :
                ~IsMarker(nodes[i]) =>
                    /\ nodes[i].attributes = ExtractAttrs(heap, errs[i]).items
                    /\ nodes[i].attributes = DiscoveredAttrs(heap, errs[i])
                    /\ \A x \in Range(DiscoveryOrder(heap, errs[i])) :
                          heap[x].kind = "attributed" =>
                              Range(heap[x].attrs) \subseteq Range(nodes[i].attributes)
                    /\ (\A x \in Range(DiscoveryOrder(heap, errs[i])) : heap[x].kind # "attributed")
                          => nodes[i].attributes = <<>>

\* two wrappers over a sentinel whose parent is an attribute list: the nodes
\* of both wrappers, of the sentinel and of the attribute list (the sentinel's
\* unwrap target) each hold the pair
C25_Witness ==
    /\ ser.pc = "done"
    /\ ser.root # NIL
    /\ heap[ser.root].kind = "wrapError"
    /\ heap[Unwrap(heap, ser.root)].kind = "wrapError"
    /\ Unwrap(heap, Unwrap(heap, ser.root)) = LTagged
    /\ Len(NodesOf(ser.out)) = 4
    /\ ser.out.attributes = heap[ErrAttrs].attrs
    /\ ser.out.cause.attributes = heap[ErrAttrs].attrs
    /\ ser.out.cause.cause.attributes = heap[ErrAttrs].attrs
    /\ ser.out.cause.cause.message = "tagged"
    /\ ser.out.cause.cause.cause.attributes = heap[ErrAttrs].attrs

\* a wrapper over the base error: no Attributed instance, no attributes
C25_WitnessNone ==
    /\ ser.pc = "done"
    /\ ser.root # NIL
    /\ heap[ser.root].kind = "wrapError"
    /\ Unwrap(heap, ser.root) = BaseErr
    /\ ser.out.attributes = <<>>
    /\ ser.out.cause.attributes = <<>>

RECURSIVE UnwrapChain(_, _)
\* the errors met by following Unwrap from e, e included
UnwrapChain(h, e) == IF e = NIL THEN <<>> ELSE <<e>> \o UnwrapChain(h, Unwrap(h, e))

\* C26: with includeStandardErrors disabled, every error implementing
\* Classified that lies in the unwrap chain of the root has its node in the
\* serialized cause chain, also when a standard error or a plain wrapper lies
\* between it and the root (stated for the default depth limit).
C26_ClassifiedKept ==
    (ser.pc = "done" /\ ser.root # NIL /\ ~ser.cfg.includeStandardErrors
        /\ ser.cfg.maxDepth = defaultConfig.maxDepth) =>
        LET nodes == NodesOf(ser.out)
            chain == UnwrapChain(heap, ser.root)
        IN  \A i \in 1..Len(chain) :
                isErrxError(heap, chain[i]) =>
                    \E j \in 1..Len(nodes) : nodes[j].message = ErrorOf(heap, chain[i])

\* with the option disabled, a wrapper around a wrapper around the
\* displayable error is serialized: the result has no cause
C26_Dropped ==
    /\ ser.pc = "done"
    /\ ~ser.cfg.includeStandardErrors
    /\ heap[ser.root].kind = "wrapError"
    /\ Unwrap(heap, ser.root) # NIL
    /\ heap[Unwrap(heap, ser.root)].kind = "wrapError"
    /\ Unwrap(heap, Unwrap(heap, ser.root)) = ErrDisplay
    /\ ser.out.message = "ctx: ctx: msg"
    /\ ser.out.cause.nil

\* the carriers of a heap
Carriers(h) == {c \in 1..Len(h) : h[c].kind = "carrier"}

\* C27: once Wrap or Classify (of errx or of stacktrace) has returned, the
\* classification sequence of the Carrier it built never changes: no later
\* call changes the classifications of a Carrier that exists, so each error
\* of stacktrace.Wrap / stacktrace.Classify keeps the trace of its own call
\* when later calls are made with the same caller-held slice, and no call
\* changes what the caller's slice shows.
C27_Immutable ==
    [][ /\ \A c \in Carriers(heap) : heap'[c].cls = heap[c].cls
        /\ SubSeq(heap'[SliceArray].cls, 1, CallerSlice.len)
              = SubSeq(heap[SliceArray].cls, 1, CallerSlice.len) ]_vars

\* a Carrier holds a trace that was captured after the Carrier was built: the
\* trace of a later call
C27_TraceReplaced ==
    \E c \in Carriers(heap) :
        /\ heap[c].backing = SliceArray
        /\ \E i \in 1..Len(heap[c].cls) :
              heap[c].cls[i] > c /\ heap[heap[c].cls[i]].kind = "traced"

\* C28: serialization never fails on the shape of its input: for every
\* non-nil error, pointer-typed or value-typed, at the root or anywhere in
\* the graph, building the serialized tree completes without a panic.
C28_NeverPanics ==
    /\ ser.pc # "panicked"
    /\ (ser.pc = "running" /\ ser.root # NIL) =>
          ToSerializedError(heap, ser.root, ser.cfg).st # "panics"

\* the call on a wrapper around the value-typed error has panicked: the root
\* got its node, the identity test on its cause did not return
C28_Panicked ==
    /\ ser.pc = "panicked"
    /\ heap[ser.root].kind = "wrapError"
    /\ Unwrap(heap, ser.root) = LValue
    /\ ~UnsafePointerDefined(heap, LValue)

\* C29: a terminal node with the message "(circular reference)" is produced
\* only for an error that is reachable from itself through the unwrap
\* relation: in the tree of an error whose unwrap relation has no cycle there
\* is no such node, an instance shared by two paths being serialized in full
\* on each.
C29_CircularOnlyOnCycle ==
    (ser.pc = "done" /\ ser.root # NIL /\ HasMessage(ser.out, CircularReference))
        => HasUnwrapCycle(heap, ser.root)

\* a multi-cause error with members nil, c and the cause of c has been
\* serialized: no cycle, c and its cause have their nodes, and the last
\* member, met a second time, is the terminal node
C29_SharedMarked ==
    /\ ser.pc = "done"
    /\ ser.root # NIL
    /\ IsMulti(heap, ser.root)
    /\ ~HasUnwrapCycle(heap, ser.root)
    /\ Len(heap[ser.root].members) = 3
    /\ heap[ser.root].members[2] = Cyclic
    /\ heap[ser.root].members[3] = heap[Cyclic].cause
    /\ Len(ser.out.causes.items) = 2
    /\ ~IsMarker(ser.out.causes.items[1])
    /\ ~IsMarker(ser.out.causes.items[1].cause)
    /\ ser.out.causes.items[2] = SerializedError(CircularReference)

\* C30: no attached sentinel is lost by stepping over Carriers: with the
\* default options, for a single-cause chain without a cycle and within the
\* depth limit, the serialization returns and the text of every pure
\* sentinel attached by any Carrier of the chain is in the sentinels of at
\* least one emitted node, however many Carriers are nested directly inside
\* one another.
C30_NoSentinelLost ==
  /\ (ser.pc = "running" /\ ser.root # NIL /\ ser.cfg = defaultConfig
         /\ NoValueError(heap, ser.root)
         /\ \E i \in 1..Len(UnwrapChain(heap, ser.root)) :
               /\ isCarrier(heap, UnwrapChain(heap, ser.root)[i])
               /\ PureTexts(heap, <<UnwrapChain(heap, ser.root)[i]>>) # {})
        => ToSerializedError(heap, ser.root, ser.cfg).st = "ok"
  /\
    (ser.pc = "done" /\ ser.root # NIL /\ ser.cfg = defaultConfig) =>
        LET nodes == NodesOf(ser.out)
            chain == UnwrapChain(heap, ser.root)
        IN  \A i \in 1..Len(chain) :
                isCarrier(heap, chain[i]) =>
                    \A t \in PureTexts(heap, <<chain[i]>>) :
                        \E j \in 1..Len(nodes) : t \in Range(nodes[j].sentinels)

\* the call on three Carriers nested directly inside one another, each with
\* a pure sentinel, has panicked: no node lists any of them
C30_Witness ==
    /\ ser.pc = "panicked"
    /\ ser.cfg = defaultConfig
    /\ isCarrier(heap, ser.root)
    /\ Len(CarriersBelow(heap, ser.root)) = 2
    /\ NoValueError(heap, ser.root)
    /\ PureTexts(heap, <<ser.root>>) # {}
    /\ PureTexts(heap, <<Unwrap(heap, ser.root)>>) # {}

====
